---- MODULE Spec2Model ----
(***************************************************************************)
(* A model of monopoly-simulator.py: the board, the players, the two card  *)
(* decks and the game loop.  The value of the variable board mirrors the   *)
(* Board object (board.b, board.players, board.nHouses, board.nHotels,     *)
(* board.chanceCards, board.communityCards); the functions of the program  *)
(* are operators from a board value to a board value, and make_a_move is   *)
(* walked through label by label (pc), one action per step of its body.    *)
(***************************************************************************)
EXTENDS Integers, Sequences, FiniteSets, TLC

(***************************************************************************)
(* Settings (the module-level defaults of the program).                    *)
(***************************************************************************)
nMoves == 1000
settingStartingMoney == 1500
settingsSalary == 200
settingsLuxuryTax == 75
settingsPropertyTax == 200
settingJailFine == 50
settingHouseLimit == 32
settingHotelLimit == 12
settingsAllowUnEqualDevelopment == FALSE
behave_unspendable_cash == 0
behaveUnmortgageCoeff == 3
behaveDoTrade == TRUE
behaveDoThreeWayTrade == TRUE

(***************************************************************************)
(* Bounds of the model.                                                    *)
(***************************************************************************)
\* number of players of a game (the program allows 2..8, default 4)
n_players == 3
\* make_a_move calls explored in one behaviour
MaxCalls == 1

Players == 1..n_players
\* the value of Property.owner when the plot is on the market (None)
None == 0

(***************************************************************************)
(* The board: 40 cells, Board.__init__.                                    *)
(***************************************************************************)
Prop(cb, rb, ch, rh, g) ==
    [kind |-> "Property", cost_base |-> cb, rent_base |-> rb, cost_house |-> ch,
     rent_house |-> rh, group |-> g]

Other(k) ==
    [kind |-> k, cost_base |-> 0, rent_base |-> 0, cost_house |-> 0,
     rent_house |-> <<0, 0, 0, 0, 0>>, group |-> ""]

NoRent == <<0, 0, 0, 0, 0>>

\* board.b[position], the fixed part of the cell: Go (0), Prison (10) and
\* Free Parking (20) are plain cells
Cell(position) ==
    CASE position = 1 -> Prop(60, 2, 50, <<10, 30, 90, 160, 250>>, "BROWN")
      [] position = 3 -> Prop(60, 4, 50, <<20, 60, 180, 320, 450>>, "BROWN")
      [] position = 5 -> Prop(200, 0, 0, NoRent, "RAILROAD")
      [] position = 6 -> Prop(100, 6, 50, <<30, 90, 270, 400, 550>>, "LIGHT_BLUE")
      [] position = 8 -> Prop(100, 6, 50, <<30, 90, 270, 400, 550>>, "LIGHT_BLUE")
      [] position = 9 -> Prop(120, 8, 50, <<40, 100, 300, 450, 600>>, "LIGHT_BLUE")
      [] position = 11 -> Prop(140, 10, 100, <<50, 150, 450, 625, 750>>, "PINK")
      [] position = 12 -> Prop(150, 0, 0, NoRent, "UTILITY")
      [] position = 13 -> Prop(140, 10, 100, <<50, 150, 450, 625, 750>>, "PINK")
      [] position = 14 -> Prop(160, 12, 100, <<60, 180, 500, 700, 900>>, "PINK")
      [] position = 15 -> Prop(200, 0, 0, NoRent, "RAILROAD")
      [] position = 16 -> Prop(180, 14, 100, <<70, 200, 550, 700, 950>>, "ORANGE")
      [] position = 18 -> Prop(180, 14, 100, <<70, 200, 550, 700, 950>>, "ORANGE")
      [] position = 19 -> Prop(200, 16, 100, <<80, 220, 600, 800, 1000>>, "ORANGE")
      [] position = 21 -> Prop(220, 18, 150, <<90, 250, 700, 875, 1050>>, "RED")
      [] position = 23 -> Prop(220, 18, 150, <<90, 250, 700, 875, 1050>>, "RED")
      [] position = 24 -> Prop(240, 20, 150, <<100, 300, 750, 925, 1100>>, "RED")
      [] position = 25 -> Prop(200, 0, 0, NoRent, "RAILROAD")
      [] position = 26 -> Prop(260, 22, 150, <<110, 330, 800, 975, 1150>>, "YELLOW")
      [] position = 27 -> Prop(260, 22, 150, <<110, 330, 800, 975, 1150>>, "YELLOW")
      [] position = 28 -> Prop(150, 0, 0, NoRent, "UTILITY")
      [] position = 29 -> Prop(280, 24, 150, <<120, 360, 850, 1025, 1200>>, "YELLOW")
      [] position = 31 -> Prop(300, 26, 200, <<130, 390, 900, 1100, 1275>>, "GREEN")
      [] position = 32 -> Prop(300, 26, 200, <<130, 390, 900, 1100, 1275>>, "GREEN")
      [] position = 34 -> Prop(320, 28, 200, <<150, 450, 100, 1200, 1400>>, "GREEN")
      [] position = 35 -> Prop(200, 0, 0, NoRent, "RAILROAD")
      [] position = 37 -> Prop(350, 35, 200, <<175, 500, 1100, 1300, 1500>>, "INDIGO")
      [] position = 39 -> Prop(400, 50, 200, <<200, 600, 1400, 1700, 2000>>, "INDIGO")
      [] position \in {0, 10, 20} -> Other("Cell")
      [] position \in {2, 17, 33} -> Other("Community")
      [] position \in {4} -> Other("PropertyTax")
      [] position \in {7, 22, 36} -> Other("Chance")
      [] position \in {30} -> Other("GoToJail")
      [] position \in {38} -> Other("LuxuryTax")

Positions == 0..39
\* the cells with type(plot) == Property, and the same in the order of board.b
Plots == {1, 3, 5, 6, 8, 9, 11, 12, 13, 14, 15, 16, 18, 19,
          21, 23, 24, 25, 26, 27, 28, 29, 31, 32, 34, 35, 37, 39}
PlotSeq == <<1, 3, 5, 6, 8, 9, 11, 12, 13, 14, 15, 16, 18, 19,
            21, 23, 24, 25, 26, 27, 28, 29, 31, 32, 34, 35, 37, 39>>

\* util.PropertyGroup and the plots of each group
Groups == {"BROWN", "RAILROAD", "LIGHT_BLUE", "PINK", "UTILITY",
           "ORANGE", "RED", "YELLOW", "GREEN", "INDIGO"}
GroupPlots(g) ==
    CASE g = "BROWN" -> {1, 3}
      [] g = "RAILROAD" -> {5, 15, 25, 35}
      [] g = "LIGHT_BLUE" -> {6, 8, 9}
      [] g = "PINK" -> {11, 13, 14}
      [] g = "UTILITY" -> {12, 28}
      [] g = "ORANGE" -> {16, 18, 19}
      [] g = "RED" -> {21, 23, 24}
      [] g = "YELLOW" -> {26, 27, 29}
      [] g = "GREEN" -> {31, 32, 34}
      [] g = "INDIGO" -> {37, 39}
\* the colour groups: every group but the railroads and the utilities
ColourPlots == Plots \ (GroupPlots("RAILROAD") \cup GroupPlots("UTILITY"))

\* PropertyGroup.value orders the first sort of list_property_to_build
GroupValue(g) ==
    CASE g = "BROWN" -> 1 [] g = "LIGHT_BLUE" -> 2 [] g = "PINK" -> 3
      [] g = "ORANGE" -> 4 [] g = "RED" -> 5 [] g = "YELLOW" -> 6
      [] g = "GREEN" -> 7 [] g = "INDIGO" -> 8 [] g = "RAILROAD" -> 9
      [] g = "UTILITY" -> 10

(***************************************************************************)
(* Sequences as Python lists.                                              *)
(***************************************************************************)
\* the increasing enumeration of a set of integers ("for i in range(len(b))"
\* and sorted())
SetToSeq(S) ==
    [r \in 1..Cardinality(S) |->
        CHOOSE x \in S : Cardinality({y \in S : y < x}) = r - 1]

\* list[::-1]
Reverse(s) == [k \in 1..Len(s) |-> s[Len(s) + 1 - k]]

\* "x in list"
InSeq(x, s) == \E k \in 1..Len(s) : s[k] = x

\* list.remove(x): drop the first occurrence
RemoveFirst(s, x) ==
    IF ~InSeq(x, s) THEN s
    ELSE LET k == CHOOSE k \in 1..Len(s) : s[k] = x /\ \A j \in 1..(k - 1) : s[j] # x
         IN  SubSeq(s, 1, k - 1) \o SubSeq(s, k + 1, Len(s))

\* the order of Python tuples of integers of one length
LexLess(a, b) ==
    \E k \in 1..Len(a) : a[k] < b[k] /\ \A j \in 1..(k - 1) : a[j] = b[j]

\* Body applied to a value that is computed once, as an assignment to a
\* local variable computes it once
With(value, Body(_)) == CHOOSE r \in {Body(v) : v \in {value}} : TRUE

\* list.sort(key=...) on a list of <<key, item>> pairs: a stable sort, an
\* item comes behind the items of a smaller key and behind the items of
\* the same key that were before it
Sorted(s) ==
    LET before(k) == Cardinality({j \in 1..Len(s) :
                        \/ LexLess(s[j][1], s[k][1])
                        \/ j < k /\ s[j][1] = s[k][1]})
    IN  [r \in 1..Len(s) |-> s[CHOOSE k \in 1..Len(s) : before(k) = r - 1]]

SortKeyed(list) == With(list, Sorted)

\* the items of a list of <<key, item>> pairs
Items(s) == [k \in 1..Len(s) |-> s[k][2]]

\* the sum of the values of a list
RECURSIVE SumTo(_, _)
SumTo(s, n) == IF n = 0 THEN 0 ELSE s[n] + SumTo(s, n - 1)

Sum(list) == With(list, LAMBDA s : SumTo(s, Len(s)))

(***************************************************************************)
(* Objects.                                                                *)
(***************************************************************************)
\* Player.__init__ (cash_limit: no player is the experimental player "exp",
\* whose settings have the same defaults as everybody's)
NewPlayer(starting_money) ==
    [position |-> 0, money |-> starting_money, consequent_doubles |-> 0,
     in_jail |-> FALSE, days_in_jail |-> 0,
     has_jail_card_chance |-> FALSE, has_jail_card_community |-> FALSE,
     is_bankrupt |-> FALSE, has_mortgages |-> << >>,
     plots_wanted |-> << >>, plots_offered |-> << >>, plots_to_build |-> << >>,
     cash_limit |-> behave_unspendable_cash, dice |-> <<0, 0>>]

\* Property.__init__, the mutable part of a plot
NewPlot == [owner |-> None, is_mortgaged |-> FALSE, is_monopoly |-> FALSE, hasHouses |-> 0]

\* Player.add_money / Player.take_money
add_money(bd, player, amount) ==
    [bd EXCEPT !.players[player].money = @ + amount]

take_money(bd, player, amount) ==
    [bd EXCEPT !.players[player].money = @ - amount]

\* Player.move_to
move_to(bd, player, position) ==
    [bd EXCEPT !.players[player].position = position]

(***************************************************************************)
(* Board: rent.                                                            *)
(***************************************************************************)
\* a count_rails that does not compare the owners: every railroad that has
\* an owner counts
count_rails_of_anyone(bd, position) ==
    LET this_owner == bd.b[position].owner
    IN  IF this_owner # None
        THEN Cardinality({i \in GroupPlots("RAILROAD") : bd.b[i].owner # None})
        ELSE 0

\* Board.count_rails
count_rails(bd, position) ==
    LET this_owner == bd.b[position].owner
    IN  IF this_owner # None
        THEN Cardinality({i \in GroupPlots("RAILROAD") : bd.b[i].owner = this_owner})
        ELSE 0

\* a calculate_rent that looks at the monopoly before it looks at the houses
calculate_rent_monopoly_first(bd, position, dice, special) ==
    LET plot == bd.b[position]
        cell == Cell(position)
        dice_value == dice[1] + dice[2]
    IN  IF cell.group = "UTILITY"
        THEN IF plot.is_monopoly \/ special = "from_chance"
             THEN dice_value * 10
             ELSE dice_value * 4
        ELSE IF cell.group = "RAILROAD"
        THEN IF special = "from_chance"
             THEN 25 * count_rails(bd, position) * 2
             ELSE 25 * count_rails(bd, position)
        ELSE IF plot.is_monopoly
             THEN 2 * cell.rent_base
             ELSE IF plot.hasHouses > 0
                  THEN cell.rent_house[plot.hasHouses]
                  ELSE cell.rent_base

\* Board.calculate_rent, for a cell that is a Property; dice is a pair
calculate_rent(bd, position, dice, special) ==
    LET plot == bd.b[position]
        cell == Cell(position)
        dice_value == dice[1] + dice[2]
    IN  IF cell.group = "UTILITY"
        THEN IF plot.is_monopoly \/ special = "from_chance"
             THEN dice_value * 10
             ELSE dice_value * 4
        ELSE IF cell.group = "RAILROAD"
        THEN IF special = "from_chance"
             THEN 25 * count_rails(bd, position) * 2
             ELSE 25 * count_rails(bd, position)
        ELSE IF plot.hasHouses > 0
             THEN cell.rent_house[plot.hasHouses]
             ELSE IF plot.is_monopoly
                  THEN 2 * cell.rent_base
                  ELSE cell.rent_base

(***************************************************************************)
(* Board: monopolies and the cached lists of the players.                  *)
(***************************************************************************)
\* the dictionary "groups" of check_monopolies after the plots of the list
\* plots: -1 for a group not met yet, None (False) for a group that is no
\* monopoly, else the owner of every plot of the group met so far
RECURSIVE monopoly_groups(_, _, _)
monopoly_groups(bd, plots, groups) ==
    IF plots = << >> THEN groups
    ELSE LET i == Head(plots)
             g == Cell(i).group
             next == IF bd.b[i].owner = None THEN None
                     ELSE IF groups[g] # -1
                          THEN IF groups[g] # bd.b[i].owner THEN None ELSE groups[g]
                          ELSE bd.b[i].owner
         IN  monopoly_groups(bd, Tail(plots), [groups EXCEPT ![g] = next])

\* a check_monopolies that does not compare the owners: a group is a monopoly
\* when each of its plots has an owner
check_monopolies_any_owner(bd) ==
    [bd EXCEPT !.b = [i \in Plots |->
        [bd.b[i] EXCEPT !.is_monopoly =
            \A j \in GroupPlots(Cell(i).group) : bd.b[j].owner # None]]]

\* a check_monopolies that also takes the houses off the plots of a group
\* that is no monopoly
check_monopolies_razing(bd) ==
    LET groups == monopoly_groups(bd, PlotSeq, [g \in Groups |-> -1])
    IN  [bd EXCEPT !.b = [i \in Plots |->
            [bd.b[i] EXCEPT !.is_monopoly = (groups[Cell(i).group] # None),
                            !.hasHouses = IF groups[Cell(i).group] # None
                                          THEN @ ELSE 0]]]

\* Board.check_monopolies
check_monopolies(bd) ==
    LET groups == monopoly_groups(bd, PlotSeq, [g \in Groups |-> -1])
    IN  [bd EXCEPT !.b = [i \in Plots |->
            [bd.b[i] EXCEPT !.is_monopoly = (groups[Cell(i).group] # None)]]]

\* Board.get_list_of_wanted_plots
get_list_of_wanted_plots(bd, player) ==
    LET total(g) == Cardinality(GroupPlots(g))
        owned(g) == Cardinality({i \in GroupPlots(g) : bd.b[i].owner = player})
    IN  SetToSeq({i \in Plots :
            /\ Cell(i).group # "UTILITY"
            /\ total(Cell(i).group) - owned(Cell(i).group) = 1
            /\ bd.b[i].owner # player})

\* Board.get_list_of_offered_plots
get_list_of_offered_plots(bd, player) ==
    LET owned(g) == Cardinality({i \in GroupPlots(g) : bd.b[i].owner = player})
    IN  SetToSeq({i \in Plots :
            /\ Cell(i).group # "UTILITY"
            /\ owned(Cell(i).group) = 1
            /\ bd.b[i].owner = player
            /\ ~bd.b[i].is_mortgaged})

\* a list_property_to_build that keeps the plots above the minimum of their
\* group
list_property_to_build_unequal(bd, player) ==
    LET can == {i \in Plots :
                   /\ bd.b[i].is_monopoly
                   /\ bd.b[i].owner = player
                   /\ Cell(i).group # "RAILROAD"
                   /\ Cell(i).group # "UTILITY"
                   /\ bd.b[i].hasHouses < 5}
        entry(i) == [i |-> i, group |-> Cell(i).group, hasHouses |-> bd.b[i].hasHouses,
                     cost_house |-> Cell(i).cost_house, cost_base |-> Cell(i).cost_base]
        min_in_group(g) ==
            CHOOSE m \in {bd.b[i].hasHouses : i \in can \cap GroupPlots(g)} :
                \A i \in can \cap GroupPlots(g) : m <= bd.b[i].hasHouses
        \* sort(key=lambda x: (x[2].value, x[3]))
        by_group(to_build_stuff) ==
            Items(SortKeyed([k \in 1..Len(to_build_stuff) |->
                << <<GroupValue(Cell(to_build_stuff[k]).group),
                     bd.b[to_build_stuff[k]].hasHouses>>,
                   entry(to_build_stuff[k]) >>]))
        \* the pops of the entries above the minimum of their group
        gradual(sorted) ==
            SelectSeq(sorted, LAMBDA e : ~(e.hasHouses > min_in_group(e.group)
                                           /\ settingsAllowUnEqualDevelopment))
        \* sort(key=lambda x: (x[4], x[5]))
        by_price(kept) ==
            Items(SortKeyed([k \in 1..Len(kept) |->
                << <<kept[k].cost_house, kept[k].cost_base>>, kept[k] >>]))
    IN  IF can = {} THEN << >>
        ELSE With(With(With(SetToSeq(can), by_group), gradual), by_price)

\* Board.list_property_to_build (behaveBuildRandom, behaveBuildCheapest and
\* the experimental orders are off): the entries are the tuples of the
\* program without the name
list_property_to_build(bd, player) ==
    LET can == {i \in Plots :
                   /\ bd.b[i].is_monopoly
                   /\ bd.b[i].owner = player
                   /\ Cell(i).group # "RAILROAD"
                   /\ Cell(i).group # "UTILITY"
                   /\ bd.b[i].hasHouses < 5}
        entry(i) == [i |-> i, group |-> Cell(i).group, hasHouses |-> bd.b[i].hasHouses,
                     cost_house |-> Cell(i).cost_house, cost_base |-> Cell(i).cost_base]
        min_in_group(g) ==
            CHOOSE m \in {bd.b[i].hasHouses : i \in can \cap GroupPlots(g)} :
                \A i \in can \cap GroupPlots(g) : m <= bd.b[i].hasHouses
        \* sort(key=lambda x: (x[2].value, x[3]))
        by_group(to_build_stuff) ==
            Items(SortKeyed([k \in 1..Len(to_build_stuff) |->
                << <<GroupValue(Cell(to_build_stuff[k]).group),
                     bd.b[to_build_stuff[k]].hasHouses>>,
                   entry(to_build_stuff[k]) >>]))
        \* the pops of the entries above the minimum of their group
        gradual(sorted) ==
            SelectSeq(sorted, LAMBDA e : ~(e.hasHouses > min_in_group(e.group)
                                           /\ ~settingsAllowUnEqualDevelopment))
        \* sort(key=lambda x: (x[4], x[5]))
        by_price(kept) ==
            Items(SortKeyed([k \in 1..Len(kept) |->
                << <<kept[k].cost_house, kept[k].cost_base>>, kept[k] >>]))
    IN  IF can = {} THEN << >>
        ELSE With(With(With(SetToSeq(can), by_group), gradual), by_price)

\* a recalculate_after_property_change whose lists of wanted and of offered
\* plots do not leave the utilities out
recalculate_with_utilities(bd) ==
    LET owned(b1, p, g) == Cardinality({i \in GroupPlots(g) : b1.b[i].owner = p})
        wanted(b1, p) ==
            SetToSeq({i \in Plots :
                /\ Cardinality(GroupPlots(Cell(i).group)) - owned(b1, p, Cell(i).group) = 1
                /\ b1.b[i].owner # p})
        offered(b1, p) ==
            SetToSeq({i \in Plots :
                /\ owned(b1, p, Cell(i).group) = 1
                /\ b1.b[i].owner = p
                /\ ~b1.b[i].is_mortgaged})
    IN  With(check_monopolies(bd), LAMBDA b1 :
            [b1 EXCEPT !.players = [p \in Players |->
                [b1.players[p] EXCEPT
                    !.plots_wanted = wanted(b1, p),
                    !.plots_offered = offered(b1, p),
                    !.plots_to_build = list_property_to_build(b1, p)]]])

\* Board.recalculate_after_property_change
recalculate_after_property_change(bd) ==
    With(check_monopolies(bd), LAMBDA b1 :
        [b1 EXCEPT !.players = [p \in Players |->
            [b1.players[p] EXCEPT
                !.plots_wanted = get_list_of_wanted_plots(b1, p),
                !.plots_offered = get_list_of_offered_plots(b1, p),
                !.plots_to_build = list_property_to_build(b1, p)]]])

(***************************************************************************)
(* Board: building.                                                        *)
(***************************************************************************)
\* Board.choose_property_to_build: the last entry of plots_to_build the
\* money pays for, or 0 for False (cell 0 is no plot)
choose_property_to_build(bd, player, available_money) ==
    LET plots_to_build == bd.players[player].plots_to_build
        fits == {k \in 1..Len(plots_to_build) :
                    plots_to_build[k].cost_house <= available_money}
    IN  IF fits = {} THEN 0
        ELSE plots_to_build[CHOOSE k \in fits : \A j \in fits : j <= k].i

\* an improve_property that tests the limits with > for ==
improve_property_over(bd, player, available_money) ==
    LET property_to_improve == choose_property_to_build(bd, player, available_money)
        this_is_hotel == bd.b[property_to_improve].hasHouses = 4
        built == [bd EXCEPT !.b[property_to_improve].hasHouses = @ + 1,
                            !.nHotels = IF this_is_hotel THEN @ + 1 ELSE @,
                            !.nHouses = IF this_is_hotel THEN @ - 4 ELSE @ + 1]
        paid == take_money(built, player, Cell(property_to_improve).cost_house)
    IN  IF property_to_improve = 0
        THEN [board |-> bd, ret |-> FALSE]
        ELSE IF this_is_hotel /\ bd.nHotels > settingHotelLimit
        THEN [board |-> bd, ret |-> FALSE]
        ELSE IF ~this_is_hotel /\ bd.nHouses > settingHouseLimit
        THEN [board |-> bd, ret |-> FALSE]
        ELSE [board |-> With(paid, LAMBDA b1 :
                            [b1 EXCEPT !.players[player].plots_to_build =
                                          list_property_to_build(b1, player)]),
              ret |-> TRUE]

\* an improve_property whose hotel does not give the four houses back
improve_property_houses_kept(bd, player, available_money) ==
    LET property_to_improve == choose_property_to_build(bd, player, available_money)
        this_is_hotel == bd.b[property_to_improve].hasHouses = 4
        built == [bd EXCEPT !.b[property_to_improve].hasHouses = @ + 1,
                            !.nHotels = IF this_is_hotel THEN @ + 1 ELSE @,
                            !.nHouses = IF this_is_hotel THEN @ ELSE @ + 1]
        paid == take_money(built, player, Cell(property_to_improve).cost_house)
    IN  IF property_to_improve = 0
        THEN [board |-> bd, ret |-> FALSE]
        ELSE IF this_is_hotel /\ bd.nHotels = settingHotelLimit
        THEN [board |-> bd, ret |-> FALSE]
        ELSE IF ~this_is_hotel /\ bd.nHouses = settingHouseLimit
        THEN [board |-> bd, ret |-> FALSE]
        ELSE [board |-> With(paid, LAMBDA b1 :
                            [b1 EXCEPT !.players[player].plots_to_build =
                                          list_property_to_build(b1, player)]),
              ret |-> TRUE]

\* Board.improve_property: the board after the call and what the call returns
improve_property(bd, player, available_money) ==
    LET property_to_improve == choose_property_to_build(bd, player, available_money)
        this_is_hotel == bd.b[property_to_improve].hasHouses = 4
        built == [bd EXCEPT !.b[property_to_improve].hasHouses = @ + 1,
                            !.nHotels = IF this_is_hotel THEN @ + 1 ELSE @,
                            !.nHouses = IF this_is_hotel THEN @ - 4 ELSE @ + 1]
        paid == take_money(built, player, Cell(property_to_improve).cost_house)
    IN  IF property_to_improve = 0
        THEN [board |-> bd, ret |-> FALSE]
        ELSE IF this_is_hotel /\ bd.nHotels = settingHotelLimit
        THEN [board |-> bd, ret |-> FALSE]
        ELSE IF ~this_is_hotel /\ bd.nHouses = settingHouseLimit
        THEN [board |-> bd, ret |-> FALSE]
        ELSE [board |-> With(paid, LAMBDA b1 :
                            [b1 EXCEPT !.players[player].plots_to_build =
                                          list_property_to_build(b1, player)]),
              ret |-> TRUE]

(***************************************************************************)
(* Mortgages, liquidation and bankruptcy.                                  *)
(***************************************************************************)
\* Board.share_of_group: owned / total, here in twelfths (the groups have 2,
\* 3 or 4 plots), which orders the shares as the quotients do
share_of_group(bd, group, player) ==
    (Cardinality({i \in GroupPlots(group) : bd.b[i].owner = player}) * 12)
        \div Cardinality(GroupPlots(group))

\* a choice that sells from the plot with the fewest buildings first
choose_property_least_built(bd, player) ==
    LET \* sort(key=lambda x: (x[3], x[4])) and the first entry
        first(owned) ==
            Items(SortKeyed([k \in 1..Len(owned) |->
                << <<share_of_group(bd, Cell(owned[k]).group, player),
                     bd.b[owned[k]].hasHouses>>,
                   owned[k] >>]))[1]
        mine == {i \in Plots : ~bd.b[i].is_mortgaged /\ bd.b[i].owner = player}
    IN  IF mine = {} THEN 0 ELSE With(SetToSeq(mine), first)

\* Board.choose_property_to_mortgage_downgrade: 0 for False
choose_property_to_mortgage_downgrade(bd, player) ==
    LET \* sort(key=lambda x: (x[3], -x[4])) and the first entry
        first(owned) ==
            Items(SortKeyed([k \in 1..Len(owned) |->
                << <<share_of_group(bd, Cell(owned[k]).group, player),
                     0 - bd.b[owned[k]].hasHouses>>,
                   owned[k] >>]))[1]
        mine == {i \in Plots : ~bd.b[i].is_mortgaged /\ bd.b[i].owner = player}
    IN  IF mine = {} THEN 0 ELSE With(SetToSeq(mine), first)

\* a mortgage that leaves four houses where it sells a hotel
mortgage_hotel_to_houses(bd, position, player) ==
    LET plot == bd.b[position]
    IN  IF plot.hasHouses = 5
        THEN [add_money(bd, player, (Cell(position).cost_house * 5) \div 2)
                EXCEPT !.b[position].hasHouses = 4, !.nHotels = @ - 1]
        ELSE IF plot.hasHouses > 0
        THEN [add_money(bd, player, Cell(position).cost_house \div 2)
                EXCEPT !.b[position].hasHouses = @ - 1, !.nHouses = @ - 1]
        ELSE [add_money(bd, player, Cell(position).cost_base \div 2)
                EXCEPT !.b[position].is_mortgaged = TRUE,
                       !.players[player].has_mortgages =
                           Append(@, <<position,
                                       ((Cell(position).cost_base \div 2) * 11) \div 10>>)]

\* a mortgage that sells a house and leaves it in the count of the houses
mortgage_house_counted(bd, position, player) ==
    LET plot == bd.b[position]
    IN  IF plot.hasHouses = 5
        THEN [add_money(bd, player, (Cell(position).cost_house * 5) \div 2)
                EXCEPT !.b[position].hasHouses = 0, !.nHotels = @ - 1]
        ELSE IF plot.hasHouses > 0
        THEN [add_money(bd, player, Cell(position).cost_house \div 2)
                EXCEPT !.b[position].hasHouses = @ - 1]
        ELSE [add_money(bd, player, Cell(position).cost_base \div 2)
                EXCEPT !.b[position].is_mortgaged = TRUE,
                       !.players[player].has_mortgages =
                           Append(@, <<position,
                                       ((Cell(position).cost_base \div 2) * 11) \div 10>>)]

\* Property.mortgage of the plot at position: sell the hotel, sell one
\* house, or mortgage the plot
mortgage(bd, position, player) ==
    LET plot == bd.b[position]
    IN  IF plot.hasHouses = 5
        THEN [add_money(bd, player, (Cell(position).cost_house * 5) \div 2)
                EXCEPT !.b[position].hasHouses = 0, !.nHotels = @ - 1]
        ELSE IF plot.hasHouses > 0
        THEN [add_money(bd, player, Cell(position).cost_house \div 2)
                EXCEPT !.b[position].hasHouses = @ - 1, !.nHouses = @ - 1]
        ELSE [add_money(bd, player, Cell(position).cost_base \div 2)
                EXCEPT !.b[position].is_mortgaged = TRUE,
                       !.players[player].has_mortgages =
                           Append(@, <<position,
                                       ((Cell(position).cost_base \div 2) * 11) \div 10>>)]

\* Property.unmortgage of the plot at position: this_mortgage is the last
\* entry of the player's ledger for the plot
unmortgage(bd, position, player) ==
    LET ledger == bd.players[player].has_mortgages
        k == CHOOSE k \in 1..Len(ledger) :
                /\ ledger[k][1] = position
                /\ \A j \in 1..Len(ledger) : ledger[j][1] = position => j <= k
        this_mortgage == ledger[k]
    IN  [take_money(bd, player, this_mortgage[2])
            EXCEPT !.b[position].is_mortgaged = FALSE,
                   !.players[player].has_mortgages = RemoveFirst(ledger, this_mortgage)]

\* Player.cheapest_mortgage: the index in has_mortgages, 0 for False
cheapest_mortgage(bd, player) ==
    LET ledger == bd.players[player].has_mortgages
    IN  IF Len(ledger) = 0 THEN 0
        ELSE CHOOSE k \in 1..Len(ledger) :
                /\ \A j \in 1..Len(ledger) : ledger[k][2] <= ledger[j][2]
                /\ \A j \in 1..(k - 1) : ledger[j][2] > ledger[k][2]

\* Player.repay_mortgage: the board after the call and what the call returns
repay_mortgage(bd, player) ==
    LET ledger == bd.players[player].has_mortgages
        cheapest == cheapest_mortgage(bd, player)
    IN  IF cheapest # 0
           /\ bd.players[player].money > ledger[cheapest][2] * behaveUnmortgageCoeff
        THEN [board |-> unmortgage(bd, ledger[cheapest][1], player), ret |-> TRUE]
        ELSE [board |-> bd, ret |-> FALSE]

\* a sell_all that leaves the mortgages on the plots
sell_all_mortgaged(bd, player) ==
    [bd EXCEPT !.b = [i \in Plots |->
        IF bd.b[i].owner = player
        THEN [bd.b[i] EXCEPT !.owner = None]
        ELSE bd.b[i]]]

\* Board.sell_all
sell_all(bd, player) ==
    [bd EXCEPT !.b = [i \in Plots |->
        IF bd.b[i].owner = player
        THEN [bd.b[i] EXCEPT !.owner = None, !.is_mortgaged = FALSE]
        ELSE bd.b[i]]]

\* the branch of Player.check_bankruptcy taken when nothing is left to sell
\* or to mortgage
go_bankrupt(bd, player) ==
    recalculate_after_property_change(
        sell_all([bd EXCEPT !.players[player].is_bankrupt = TRUE], player))

\* a liquidation that leaves the cached lists of the players as they are
liquidate_lists_kept(bd, player, worst_asset) ==
    mortgage(bd, worst_asset, player)

\* the other branch: one sale or one mortgage, of the plot worst_asset
liquidate(bd, player, worst_asset) ==
    recalculate_after_property_change(mortgage(bd, worst_asset, player))

\* Player.check_bankruptcy
RECURSIVE check_bankruptcy(_, _)
check_bankruptcy(bd, player) ==
    IF bd.players[player].money < 0
    THEN With(choose_property_to_mortgage_downgrade(bd, player), LAMBDA worst_asset :
             IF worst_asset = 0
             THEN go_bankrupt(bd, player)
             ELSE With(liquidate(bd, player, worst_asset),
                       LAMBDA b1 : check_bankruptcy(b1, player)))
    ELSE bd

\* Player.net_worth
net_worth(bd, player) ==
    bd.players[player].money
    + Sum([k \in 1..Len(PlotSeq) |->
              LET plot == bd.b[PlotSeq[k]]
                  cell == Cell(PlotSeq[k])
              IN  IF plot.owner # player THEN 0
                  ELSE IF plot.is_mortgaged THEN cell.cost_base \div 2
                  ELSE cell.cost_base + cell.cost_house * plot.hasHouses])

\* Player.make_repairs
make_repairs(bd, player, repairtype) ==
    LET per_house == IF repairtype = "chance" THEN 25 ELSE 40
        per_hotel == IF repairtype = "chance" THEN 100 ELSE 115
        repair_cost ==
            Sum([k \in 1..Len(PlotSeq) |->
                    LET plot == bd.b[PlotSeq[k]]
                    IN  IF plot.owner # player THEN 0
                        ELSE IF plot.hasHouses = 5 THEN per_hotel
                        ELSE plot.hasHouses * per_house])
    IN  take_money(bd, player, repair_cost)

(***************************************************************************)
(* The actions of the cells.                                               *)
(***************************************************************************)
\* a wants_to_buy that spends the cash down to the limit
wants_to_buy_to_the_limit(bd, player, cost, group) ==
    bd.players[player].money >= cost + bd.players[player].cash_limit

\* Player.wants_to_buy (expRefuseProperty is "", no group)
wants_to_buy(bd, player, cost, group) ==
    bd.players[player].money > cost + bd.players[player].cash_limit

\* a Property.action that takes the rent of a mortgaged plot
property_action_rent_on_mortgaged(bd, position, player, rent) ==
    LET plot == bd.b[position]
    IN  IF plot.owner = player
        THEN bd
        ELSE IF plot.owner = None
        THEN IF wants_to_buy(bd, player, Cell(position).cost_base, Cell(position).group)
             THEN recalculate_after_property_change(
                      [take_money(bd, player, Cell(position).cost_base)
                          EXCEPT !.b[position].owner = player])
             ELSE bd
        ELSE add_money(take_money(bd, player, rent), plot.owner, rent)

\* Property.action
property_action(bd, position, player, rent) ==
    LET plot == bd.b[position]
    IN  IF plot.owner = player \/ plot.is_mortgaged
        THEN bd
        ELSE IF plot.owner = None
        THEN IF wants_to_buy(bd, player, Cell(position).cost_base, Cell(position).group)
             THEN recalculate_after_property_change(
                      [take_money(bd, player, Cell(position).cost_base)
                          EXCEPT !.b[position].owner = player])
             ELSE bd
        ELSE add_money(take_money(bd, player, rent), plot.owner, rent)

\* LuxuryTax.action
luxury_tax_action(bd, player) == take_money(bd, player, settingsLuxuryTax)

\* PropertyTax.action
property_tax_action(bd, player) ==
    LET tenth == net_worth(bd, player) \div 10
        to_pay == IF settingsPropertyTax < tenth THEN settingsPropertyTax ELSE tenth
    IN  take_money(bd, player, to_pay)

\* GoToJail.action, and the Go Directly to Jail cards
go_to_jail_action(bd, player) ==
    [move_to(bd, player, 10) EXCEPT !.players[player].in_jail = TRUE]

\* a loop of the Chance card 11 that pays the bankrupt players too
RECURSIVE pay_each_player_bankrupt_too(_, _, _)
pay_each_player_bankrupt_too(bd, player, others) ==
    IF others = << >> THEN bd
    ELSE LET other_player == Head(others)
         IN  IF other_player # player
             THEN pay_each_player_bankrupt_too(
                      add_money(take_money(bd, player, 50), other_player, 50),
                      player, Tail(others))
             ELSE pay_each_player_bankrupt_too(bd, player, Tail(others))

\* the loop of the Chance card 11 over the players of the list others
RECURSIVE pay_each_player(_, _, _)
pay_each_player(bd, player, others) ==
    IF others = << >> THEN bd
    ELSE LET other_player == Head(others)
         IN  IF other_player # player /\ ~bd.players[other_player].is_bankrupt
             THEN pay_each_player(add_money(take_money(bd, player, 50), other_player, 50),
                                  player, Tail(others))
             ELSE pay_each_player(bd, player, Tail(others))

\* a loop of the Community card 1 that collects from the bankrupt players too
RECURSIVE collect_from_each_player_bankrupt_too(_, _, _)
collect_from_each_player_bankrupt_too(bd, player, others) ==
    IF others = << >> THEN bd
    ELSE LET other_player == Head(others)
         IN  IF other_player # player
             THEN With(check_bankruptcy(
                           take_money(add_money(bd, player, 50), other_player, 50),
                           other_player),
                       LAMBDA b1 : collect_from_each_player_bankrupt_too(
                                       b1, player, Tail(others)))
             ELSE collect_from_each_player_bankrupt_too(bd, player, Tail(others))

\* a loop of the Community card 1 that leaves the players who paid unchecked
RECURSIVE collect_from_each_player_unchecked(_, _, _)
collect_from_each_player_unchecked(bd, player, others) ==
    IF others = << >> THEN bd
    ELSE LET other_player == Head(others)
         IN  IF other_player # player /\ ~bd.players[other_player].is_bankrupt
             THEN With(take_money(add_money(bd, player, 50), other_player, 50),
                       LAMBDA b1 : collect_from_each_player_unchecked(
                                       b1, player, Tail(others)))
             ELSE collect_from_each_player_unchecked(bd, player, Tail(others))

\* the loop of the Community card 1 over the players of the list others
RECURSIVE collect_from_each_player(_, _, _)
collect_from_each_player(bd, player, others) ==
    IF others = << >> THEN bd
    ELSE LET other_player == Head(others)
         IN  IF other_player # player /\ ~bd.players[other_player].is_bankrupt
             THEN With(check_bankruptcy(
                           take_money(add_money(bd, player, 50), other_player, 50),
                           other_player),
                       LAMBDA b1 : collect_from_each_player(b1, player, Tail(others)))
             ELSE collect_from_each_player(bd, player, Tail(others))

\* board.players, in the order of the list
PlayerSeq == [k \in 1..n_players |-> k]

\* "advance to" of the Chance cards 0, 2 and 4: salary when the target is
\* not ahead of the player
advance_to(bd, player, target) ==
    LET paid == IF bd.players[player].position >= target
                THEN add_money(bd, player, settingsSalary)
                ELSE bd
    IN  [paid EXCEPT !.players[player].position = target]

\* a Community.action that puts every card back, the jail card too
community_action_card_back(bd, player) ==
    LET community_card == Head(bd.communityCards)
        drawn == [bd EXCEPT !.communityCards = Tail(@)]
        done ==
            CASE community_card = 0 -> take_money(drawn, player, 150)
              [] community_card = 1 -> collect_from_each_player(drawn, player, PlayerSeq)
              [] community_card = 2 -> add_money(drawn, player, 100)
              [] community_card = 3 -> take_money(drawn, player, 100)
              [] community_card = 4 -> add_money(drawn, player, 20)
              [] community_card = 5 -> go_to_jail_action(drawn, player)
              [] community_card = 6 ->
                    [drawn EXCEPT !.players[player].has_jail_card_community = TRUE]
              [] community_card = 7 -> add_money(drawn, player, 10)
              [] community_card = 8 -> make_repairs(drawn, player, "community")
              [] community_card = 9 -> add_money(drawn, player, 200)
              [] community_card = 10 ->
                    [add_money(drawn, player, settingsSalary)
                        EXCEPT !.players[player].position = 0]
              [] community_card = 11 -> add_money(drawn, player, 100)
              [] community_card = 12 -> take_money(drawn, player, 50)
              [] community_card = 13 -> add_money(drawn, player, 45)
              [] community_card = 14 -> add_money(drawn, player, 25)
              [] community_card = 15 -> add_money(drawn, player, 100)
    IN  [done EXCEPT !.communityCards = Append(@, community_card)]

\* Community.action
community_action(bd, player) ==
    LET community_card == Head(bd.communityCards)
        drawn == [bd EXCEPT !.communityCards = Tail(@)]
        done ==
            CASE community_card = 0 -> take_money(drawn, player, 150)
              [] community_card = 1 -> collect_from_each_player(drawn, player, PlayerSeq)
              [] community_card = 2 -> add_money(drawn, player, 100)
              [] community_card = 3 -> take_money(drawn, player, 100)
              [] community_card = 4 -> add_money(drawn, player, 20)
              [] community_card = 5 -> go_to_jail_action(drawn, player)
              [] community_card = 6 ->
                    [drawn EXCEPT !.players[player].has_jail_card_community = TRUE]
              [] community_card = 7 -> add_money(drawn, player, 10)
              [] community_card = 8 -> make_repairs(drawn, player, "community")
              [] community_card = 9 -> add_money(drawn, player, 200)
              [] community_card = 10 ->
                    [add_money(drawn, player, settingsSalary)
                        EXCEPT !.players[player].position = 0]
              [] community_card = 11 -> add_money(drawn, player, 100)
              [] community_card = 12 -> take_money(drawn, player, 50)
              [] community_card = 13 -> add_money(drawn, player, 45)
              [] community_card = 14 -> add_money(drawn, player, 25)
              [] community_card = 15 -> add_money(drawn, player, 100)
    IN  IF community_card # 6
        THEN [done EXCEPT !.communityCards = Append(@, community_card)]
        ELSE done

\* Board.action and Chance.action call each other
RECURSIVE board_action(_, _, _, _)
RECURSIVE chance_action(_, _)

\* Chance.action
chance_action(bd, player) ==
    LET chance_card == Head(bd.chanceCards)
        drawn == [bd EXCEPT !.chanceCards = Tail(@)]
        position == drawn.players[player].position
        nearest_railroad == ((((position + 4) \div 10) * 10) + 5) % 40
        nearest_utility == IF 12 < position /\ position <= 28 THEN 28 ELSE 12
        done ==
            CASE chance_card = 0 -> board_action(advance_to(drawn, player, 11), player, 11, "")
              [] chance_card = 1 ->
                    [drawn EXCEPT !.players[player].has_jail_card_chance = TRUE]
              [] chance_card = 2 -> board_action(advance_to(drawn, player, 5), player, 5, "")
              [] chance_card = 3 ->
                    board_action([drawn EXCEPT !.players[player].position = nearest_railroad],
                                 player, nearest_railroad, "from_chance")
              [] chance_card = 4 -> board_action(advance_to(drawn, player, 24), player, 24, "")
              [] chance_card = 5 -> make_repairs(drawn, player, "chance")
              [] chance_card = 6 ->
                    [add_money(drawn, player, settingsSalary)
                        EXCEPT !.players[player].position = 0]
              [] chance_card = 7 -> add_money(drawn, player, 50)
              [] chance_card = 8 -> take_money(drawn, player, 15)
              [] chance_card = 9 ->
                    board_action([drawn EXCEPT !.players[player].position = nearest_utility],
                                 player, nearest_utility, "from_chance")
              [] chance_card = 10 -> go_to_jail_action(drawn, player)
              [] chance_card = 11 -> pay_each_player(drawn, player, PlayerSeq)
              [] chance_card = 12 ->
                    board_action([drawn EXCEPT !.players[player].position = 39],
                                 player, 39, "")
              [] chance_card = 13 ->
                    board_action([drawn EXCEPT !.players[player].position = position - 3],
                                 player, position - 3, "")
              [] chance_card = 14 -> add_money(drawn, player, 150)
              [] chance_card = 15 -> add_money(drawn, player, 100)
    IN  IF chance_card # 1
        THEN [done EXCEPT !.chanceCards = Append(@, chance_card)]
        ELSE done

\* Board.action
board_action(bd, player, position, special) ==
    LET kind == Cell(position).kind
    IN  CASE kind = "Property" ->
                property_action(bd, position, player,
                    calculate_rent(bd, position, bd.players[player].dice, special))
          [] kind = "Chance" -> chance_action(bd, player)
          [] kind = "Community" -> community_action(bd, player)
          [] kind = "PropertyTax" -> property_tax_action(bd, player)
          [] kind = "LuxuryTax" -> luxury_tax_action(bd, player)
          [] kind = "GoToJail" -> go_to_jail_action(bd, player)
          [] kind = "Cell" -> bd

(***************************************************************************)
(* Trades: the body of the innermost loop of each of the two functions.    *)
(***************************************************************************)
\* a two_way_match in which the owner of the expensive plot pays the owner of
\* the cheaper one
two_way_match_cheaper_paid(bd, self, i_want, they_want) ==
    LET cheaper_one == IF Cell(i_want).cost_base < Cell(they_want).cost_base
                       THEN i_want ELSE they_want
        expensive_one == IF Cell(i_want).cost_base < Cell(they_want).cost_base
                         THEN they_want ELSE i_want
        price_diff == Cell(expensive_one).cost_base - Cell(cheaper_one).cost_base
        payer == bd.b[expensive_one].owner
        payee == bd.b[cheaper_one].owner
        paid == add_money(take_money(bd, payer, price_diff), payee, price_diff)
    IN  IF /\ InSeq(they_want, bd.players[self].plots_offered)
           /\ Cell(i_want).group # Cell(they_want).group
           /\ bd.players[payer].money - price_diff >= bd.players[payer].cash_limit
        THEN [board |-> recalculate_after_property_change(
                            [paid EXCEPT !.b[cheaper_one].owner = payer,
                                         !.b[expensive_one].owner = payee]),
              ret |-> TRUE]
        ELSE [board |-> bd, ret |-> FALSE]

\* a two_way_match that asks the owner of the expensive plot for the money
\* the owner of the cheaper one pays
two_way_match_payee_tested(bd, self, i_want, they_want) ==
    LET cheaper_one == IF Cell(i_want).cost_base < Cell(they_want).cost_base
                       THEN i_want ELSE they_want
        expensive_one == IF Cell(i_want).cost_base < Cell(they_want).cost_base
                         THEN they_want ELSE i_want
        price_diff == Cell(expensive_one).cost_base - Cell(cheaper_one).cost_base
        payer == bd.b[cheaper_one].owner
        payee == bd.b[expensive_one].owner
        paid == add_money(take_money(bd, payer, price_diff), payee, price_diff)
    IN  IF /\ InSeq(they_want, bd.players[self].plots_offered)
           /\ Cell(i_want).group # Cell(they_want).group
           /\ bd.players[payee].money - price_diff >= bd.players[payee].cash_limit
        THEN [board |-> recalculate_after_property_change(
                            [paid EXCEPT !.b[cheaper_one].owner = payee,
                                         !.b[expensive_one].owner = payer]),
              ret |-> TRUE]
        ELSE [board |-> bd, ret |-> FALSE]

\* Player.two_way_trade, one pass of the inner loop, for the plot they_want:
\* the board after it and whether a trade was made
two_way_match(bd, self, i_want, they_want) ==
    LET cheaper_one == IF Cell(i_want).cost_base < Cell(they_want).cost_base
                       THEN i_want ELSE they_want
        expensive_one == IF Cell(i_want).cost_base < Cell(they_want).cost_base
                         THEN they_want ELSE i_want
        price_diff == Cell(expensive_one).cost_base - Cell(cheaper_one).cost_base
        payer == bd.b[cheaper_one].owner
        payee == bd.b[expensive_one].owner
        paid == add_money(take_money(bd, payer, price_diff), payee, price_diff)
    IN  IF /\ InSeq(they_want, bd.players[self].plots_offered)
           /\ Cell(i_want).group # Cell(they_want).group
           /\ bd.players[payer].money - price_diff >= bd.players[payer].cash_limit
        THEN [board |-> recalculate_after_property_change(
                            [paid EXCEPT !.b[cheaper_one].owner = payee,
                                         !.b[expensive_one].owner = payer]),
              ret |-> TRUE]
        ELSE [board |-> bd, ret |-> FALSE]

\* a three_way_match that hands the third plot to nobody
three_way_match_released(bd, self, wanted1, owner_of_wanted1, wanted2, owner_of_wanted2, wanted3) ==
    LET check_diff_group == {Cell(wanted1).group, Cell(wanted2).group, Cell(wanted3).group}
        topay1 == Cell(wanted1).cost_base - Cell(wanted3).cost_base
        topay2 == Cell(wanted2).cost_base - Cell(wanted1).cost_base
        topay3 == Cell(wanted3).cost_base - Cell(wanted2).cost_base
        moved == [bd EXCEPT !.b[wanted1].owner = self,
                            !.b[wanted2].owner = owner_of_wanted1,
                            !.b[wanted3].owner = None]
        paid == take_money(take_money(take_money(moved, self, topay1),
                                      owner_of_wanted1, topay2),
                           owner_of_wanted2, topay3)
    IN  IF /\ InSeq(wanted3, bd.players[self].plots_offered)
           /\ Cardinality(check_diff_group) >= 3
           /\ bd.players[self].money - topay1 > bd.players[self].cash_limit
           /\ bd.players[owner_of_wanted1].money - topay2
                > bd.players[owner_of_wanted1].cash_limit
           /\ bd.players[owner_of_wanted2].money - topay3
                > bd.players[owner_of_wanted2].cash_limit
        THEN [board |-> recalculate_after_property_change(paid), ret |-> TRUE]
        ELSE [board |-> bd, ret |-> FALSE]

\* a three_way_match that lets a party pay down to its cash_limit
three_way_match_to_the_limit(bd, self, wanted1, owner_of_wanted1, wanted2, owner_of_wanted2, wanted3) ==
    LET check_diff_group == {Cell(wanted1).group, Cell(wanted2).group, Cell(wanted3).group}
        topay1 == Cell(wanted1).cost_base - Cell(wanted3).cost_base
        topay2 == Cell(wanted2).cost_base - Cell(wanted1).cost_base
        topay3 == Cell(wanted3).cost_base - Cell(wanted2).cost_base
        moved == [bd EXCEPT !.b[wanted1].owner = self,
                            !.b[wanted2].owner = owner_of_wanted1,
                            !.b[wanted3].owner = owner_of_wanted2]
        paid == take_money(take_money(take_money(moved, self, topay1),
                                      owner_of_wanted1, topay2),
                           owner_of_wanted2, topay3)
    IN  IF /\ InSeq(wanted3, bd.players[self].plots_offered)
           /\ Cardinality(check_diff_group) >= 3
           /\ bd.players[self].money - topay1 >= bd.players[self].cash_limit
           /\ bd.players[owner_of_wanted1].money - topay2
                >= bd.players[owner_of_wanted1].cash_limit
           /\ bd.players[owner_of_wanted2].money - topay3
                >= bd.players[owner_of_wanted2].cash_limit
        THEN [board |-> recalculate_after_property_change(paid), ret |-> TRUE]
        ELSE [board |-> bd, ret |-> FALSE]

\* Player.three_way_trade, one pass of the innermost loop, for the plot
\* wanted3: the board after it and whether a trade was made
three_way_match(bd, self, wanted1, owner_of_wanted1, wanted2, owner_of_wanted2, wanted3) ==
    LET check_diff_group == {Cell(wanted1).group, Cell(wanted2).group, Cell(wanted3).group}
        topay1 == Cell(wanted1).cost_base - Cell(wanted3).cost_base
        topay2 == Cell(wanted2).cost_base - Cell(wanted1).cost_base
        topay3 == Cell(wanted3).cost_base - Cell(wanted2).cost_base
        moved == [bd EXCEPT !.b[wanted1].owner = self,
                            !.b[wanted2].owner = owner_of_wanted1,
                            !.b[wanted3].owner = owner_of_wanted2]
        paid == take_money(take_money(take_money(moved, self, topay1),
                                      owner_of_wanted1, topay2),
                           owner_of_wanted2, topay3)
    IN  IF /\ InSeq(wanted3, bd.players[self].plots_offered)
           /\ Cardinality(check_diff_group) >= 3
           /\ bd.players[self].money - topay1 > bd.players[self].cash_limit
           /\ bd.players[owner_of_wanted1].money - topay2
                > bd.players[owner_of_wanted1].cash_limit
           /\ bd.players[owner_of_wanted2].money - topay3
                > bd.players[owner_of_wanted2].cash_limit
        THEN [board |-> recalculate_after_property_change(paid), ret |-> TRUE]
        ELSE [board |-> bd, ret |-> FALSE]

(***************************************************************************)
(* Player.make_a_move from the roll of the dice to the move of the piece.  *)
(***************************************************************************)
\* a test of the doubles that is late by one
third_in_a_row_late(consequent_doubles) == consequent_doubles > 3

\* "if self.consequent_doubles == 3": the doubles just counted are the third
\* in a row
third_in_a_row(consequent_doubles) == consequent_doubles = 3

\* a jail_situation that does not put the card back in its deck
jail_situation_card_kept(bd, self, dice1, dice2, go_again) ==
    LET me == bd.players[self]
    IN  IF me.has_jail_card_chance
        THEN [board |-> [bd EXCEPT !.players[self].has_jail_card_chance = FALSE],
              go_again |-> go_again, returned |-> FALSE]
        ELSE IF me.has_jail_card_community
        THEN [board |-> [bd EXCEPT !.players[self].has_jail_card_community = FALSE],
              go_again |-> go_again, returned |-> FALSE]
        ELSE IF dice1 # dice2
        THEN IF me.days_in_jail + 1 < 3
             THEN [board |-> [bd EXCEPT !.players[self].days_in_jail = @ + 1],
                   go_again |-> go_again, returned |-> TRUE]
             ELSE [board |-> [take_money(bd, self, settingJailFine)
                                 EXCEPT !.players[self].days_in_jail = 0],
                   go_again |-> go_again, returned |-> FALSE]
        ELSE [board |-> [bd EXCEPT !.players[self].days_in_jail = 0],
              go_again |-> FALSE, returned |-> FALSE]

\* a jail_situation that lets the player out on the fine one roll late
jail_situation_fine_late(bd, self, dice1, dice2, go_again) ==
    LET me == bd.players[self]
    IN  IF me.has_jail_card_chance
        THEN [board |-> [bd EXCEPT !.players[self].has_jail_card_chance = FALSE,
                                   !.chanceCards = Append(@, 1)],
              go_again |-> go_again, returned |-> FALSE]
        ELSE IF me.has_jail_card_community
        THEN [board |-> [bd EXCEPT !.players[self].has_jail_card_community = FALSE,
                                   !.communityCards = Append(@, 6)],
              go_again |-> go_again, returned |-> FALSE]
        ELSE IF dice1 # dice2
        THEN IF me.days_in_jail + 1 <= 3
             THEN [board |-> [bd EXCEPT !.players[self].days_in_jail = @ + 1],
                   go_again |-> go_again, returned |-> TRUE]
             ELSE [board |-> [take_money(bd, self, settingJailFine)
                                 EXCEPT !.players[self].days_in_jail = 0],
                   go_again |-> go_again, returned |-> FALSE]
        ELSE [board |-> [bd EXCEPT !.players[self].days_in_jail = 0],
              go_again |-> FALSE, returned |-> FALSE]

\* a jail_situation that grants the doubles that release the player another turn
jail_situation_doubles_go_again(bd, self, dice1, dice2, go_again) ==
    LET me == bd.players[self]
    IN  IF me.has_jail_card_chance
        THEN [board |-> [bd EXCEPT !.players[self].has_jail_card_chance = FALSE,
                                   !.chanceCards = Append(@, 1)],
              go_again |-> go_again, returned |-> FALSE]
        ELSE IF me.has_jail_card_community
        THEN [board |-> [bd EXCEPT !.players[self].has_jail_card_community = FALSE,
                                   !.communityCards = Append(@, 6)],
              go_again |-> go_again, returned |-> FALSE]
        ELSE IF dice1 # dice2
        THEN IF me.days_in_jail + 1 < 3
             THEN [board |-> [bd EXCEPT !.players[self].days_in_jail = @ + 1],
                   go_again |-> go_again, returned |-> TRUE]
             ELSE [board |-> [take_money(bd, self, settingJailFine)
                                 EXCEPT !.players[self].days_in_jail = 0],
                   go_again |-> go_again, returned |-> FALSE]
        ELSE [board |-> [bd EXCEPT !.players[self].days_in_jail = 0],
              go_again |-> TRUE, returned |-> FALSE]

\* the "Jail situation" block for a player who is in jail, after the roll:
\* the board, the local go_again, and whether the function has returned
\* (False) from the block
jail_situation(bd, self, dice1, dice2, go_again) ==
    LET me == bd.players[self]
    IN  IF me.has_jail_card_chance
        THEN [board |-> [bd EXCEPT !.players[self].has_jail_card_chance = FALSE,
                                   !.chanceCards = Append(@, 1)],
              go_again |-> go_again, returned |-> FALSE]
        ELSE IF me.has_jail_card_community
        THEN [board |-> [bd EXCEPT !.players[self].has_jail_card_community = FALSE,
                                   !.communityCards = Append(@, 6)],
              go_again |-> go_again, returned |-> FALSE]
        ELSE IF dice1 # dice2
        THEN IF me.days_in_jail + 1 < 3
             THEN [board |-> [bd EXCEPT !.players[self].days_in_jail = @ + 1],
                   go_again |-> go_again, returned |-> TRUE]
             ELSE [board |-> [take_money(bd, self, settingJailFine)
                                 EXCEPT !.players[self].days_in_jail = 0],
                   go_again |-> go_again, returned |-> FALSE]
        ELSE [board |-> [bd EXCEPT !.players[self].days_in_jail = 0],
              go_again |-> FALSE, returned |-> FALSE]

\* "move the piece" and the salary for landing on GO or passing it
move_the_piece(bd, self, dice1, dice2) ==
    LET target == bd.players[self].position + dice1 + dice2
    IN  IF target >= 40
        THEN add_money(move_to(bd, self, target - 40), self, settingsSalary)
        ELSE move_to(bd, self, target)

\* a roll that leaves the count of the doubles as it is when the dice differ
roll_and_move_count_kept(bd, self, dice1, dice2) ==
    LET me == bd.players[self]
        rolled == [bd EXCEPT !.players[self].dice = <<dice1, dice2>>]
        doubles == dice1 = dice2 /\ ~me.in_jail
        counted == [rolled EXCEPT !.players[self].consequent_doubles =
                                     IF doubles THEN @ + 1 ELSE @]
        jailed == IF me.in_jail
                  THEN jail_situation(counted, self, dice1, dice2, doubles)
                  ELSE [board |-> counted, go_again |-> doubles, returned |-> FALSE]
        released == [jailed.board EXCEPT !.players[self].in_jail = FALSE]
    IN  IF doubles /\ third_in_a_row(me.consequent_doubles + 1)
        THEN [board |-> [move_to(rolled, self, 10) EXCEPT
                            !.players[self].in_jail = TRUE,
                            !.players[self].consequent_doubles = 0],
              go_again |-> TRUE, returned |-> TRUE]
        ELSE IF jailed.returned
        THEN jailed
        ELSE [board |-> move_the_piece(released, self, dice1, dice2),
              go_again |-> jailed.go_again, returned |-> FALSE]

\* the board after the lines from "roll dice" to the salary for passing GO,
\* the local go_again, and whether the function has returned (False) there
roll_and_move(bd, self, dice1, dice2) ==
    LET me == bd.players[self]
        rolled == [bd EXCEPT !.players[self].dice = <<dice1, dice2>>]
        doubles == dice1 = dice2 /\ ~me.in_jail
        counted == [rolled EXCEPT !.players[self].consequent_doubles =
                                     IF doubles THEN @ + 1 ELSE 0]
        jailed == IF me.in_jail
                  THEN jail_situation(counted, self, dice1, dice2, doubles)
                  ELSE [board |-> counted, go_again |-> doubles, returned |-> FALSE]
        released == [jailed.board EXCEPT !.players[self].in_jail = FALSE]
    IN  IF doubles /\ third_in_a_row(me.consequent_doubles + 1)
        THEN [board |-> [move_to(rolled, self, 10) EXCEPT
                            !.players[self].in_jail = TRUE,
                            !.players[self].consequent_doubles = 0],
              go_again |-> TRUE, returned |-> TRUE]
        ELSE IF jailed.returned
        THEN jailed
        ELSE [board |-> move_the_piece(released, self, dice1, dice2),
              go_again |-> jailed.go_again, returned |-> FALSE]

\* one_game, "return final scores": the list results
results(bd) == [k \in 1..n_players |-> bd.players[PlayerSeq[k]].money]

\* an is_game_over that ends the game when nobody is left
is_game_over_none_left(bd) ==
    ~(Cardinality({p \in Players : ~bd.players[p].is_bankrupt}) > 0)

\* is_game_over
is_game_over(bd) ==
    ~(Cardinality({p \in Players : ~bd.players[p].is_bankrupt}) > 1)

(***************************************************************************)
(* The state.                                                              *)
(*   board     the Board object and, in board.players, the Player objects  *)
(*   pc        where one_game / make_a_move stands                         *)
(*   i         the round, the variable of "for i in range(nMoves)"         *)
(*   turn      the index in players of the player of the inner for loop    *)
(*   go_again  the local of make_a_move                                    *)
(*   ret       what the last make_a_move call returned                     *)
(*   frame     the locals of the trade function that is running            *)
(*   calls     the number of make_a_move calls made so far                 *)
(*   entry     the board as it was when the last make_a_move call was made *)
(***************************************************************************)
VARIABLES board, pc, i, turn, go_again, ret, frame, calls, entry

vars == <<board, pc, i, turn, go_again, ret, frame, calls, entry>>

\* no trade function is running
NoFrame ==
    [trade_happened |-> FALSE, s1 |-> << >>, w1 |-> 0, o1 |-> 0,
     s2 |-> << >>, w2 |-> 0, o2 |-> 0, s3 |-> << >>]

self == turn

(***************************************************************************)
(* one_game: the two loops.                                                *)
(***************************************************************************)
\* "for i in range(nMoves)": the test of the game's end, then a new round
GameLoop ==
    /\ pc = "game_loop"
    /\ IF i >= nMoves \/ is_game_over(board)
       THEN pc' = "done" /\ turn' = turn
       ELSE pc' = "players_loop" /\ turn' = 1
    /\ UNCHANGED <<board, i, go_again, ret, frame, calls, entry>>

\* "for player in players: if not is_game_over(players)"
PlayersLoop ==
    /\ pc = "players_loop"
    /\ IF turn > n_players
       THEN pc' = "game_loop" /\ i' = i + 1 /\ turn' = turn
       ELSE IF is_game_over(board)
       THEN pc' = "players_loop" /\ i' = i /\ turn' = turn + 1
       ELSE pc' = "make_a_move" /\ i' = i /\ turn' = turn
    /\ UNCHANGED <<board, go_again, ret, frame, calls, entry>>

\* "while player.make_a_move(game_board): pass"
Returned ==
    /\ pc = "returned"
    /\ IF ret = "True"
       THEN pc' = "make_a_move" /\ turn' = turn
       ELSE pc' = "players_loop" /\ turn' = turn + 1
    /\ UNCHANGED <<board, i, go_again, ret, frame, calls, entry>>

(***************************************************************************)
(* make_a_move, step by step.                                              *)
(***************************************************************************)
\* the call, and the return of a bankrupt player
MakeAMove ==
    /\ pc = "make_a_move"
    /\ calls < MaxCalls
    /\ calls' = calls + 1
    /\ entry' = board
    /\ go_again' = FALSE
    /\ IF board.players[self].is_bankrupt
       THEN pc' = "returned" /\ ret' = "None"
       ELSE pc' = "repay" /\ ret' = ret
    /\ UNCHANGED <<board, i, turn, frame>>

\* one pass of "while self.repay_mortgage()"
Repay ==
    /\ pc = "repay"
    /\ LET r == repay_mortgage(board, self)
       IN  IF r.ret
           THEN board' = recalculate_after_property_change(r.board) /\ pc' = "repay"
           ELSE board' = board /\ pc' = "build"
    /\ UNCHANGED <<i, turn, go_again, ret, frame, calls, entry>>

\* one pass of "while board.improve_property(self, self.money - self.cash_limit)"
Build ==
    /\ pc = "build"
    /\ LET r == improve_property(board, self,
                    board.players[self].money - board.players[self].cash_limit)
       IN  IF r.ret
           THEN board' = r.board /\ pc' = "build"
           ELSE board' = board /\ pc' = "trade"
    /\ UNCHANGED <<i, turn, go_again, ret, frame, calls, entry>>

\* the choice of the trade (expRefuseTrade is off): the call of two_way_trade
Trade ==
    /\ pc = "trade"
    /\ IF behaveDoTrade
       THEN /\ pc' = "two_way_outer"
            /\ frame' = [NoFrame EXCEPT !.s1 = Reverse(board.players[self].plots_wanted)]
       ELSE pc' = "roll" /\ frame' = frame
    /\ UNCHANGED <<board, i, turn, go_again, ret, calls, entry>>

\* two_way_trade, the outer loop "for i_want in self.plots_wanted[::-1]";
\* at its end the function returns and three_way_trade may be called
TwoWayOuter ==
    /\ pc = "two_way_outer"
    /\ IF frame.s1 = << >>
       THEN IF ~frame.trade_happened /\ n_players >= 3 /\ behaveDoThreeWayTrade
            THEN /\ pc' = "three_way_1"
                 /\ frame' = [NoFrame EXCEPT
                                 !.s1 = Reverse(board.players[self].plots_wanted)]
            ELSE pc' = "roll" /\ frame' = NoFrame
       ELSE LET i_want == Head(frame.s1)
                owner_of_wanted == board.b[i_want].owner
            IN  IF owner_of_wanted = None
                THEN pc' = pc /\ frame' = [frame EXCEPT !.s1 = Tail(@)]
                ELSE /\ pc' = "two_way_inner"
                     /\ frame' = [frame EXCEPT
                            !.s1 = Tail(@), !.w1 = i_want, !.o1 = owner_of_wanted,
                            !.s2 = Reverse(board.players[owner_of_wanted].plots_wanted)]
    /\ UNCHANGED <<board, i, turn, go_again, ret, calls, entry>>

\* two_way_trade, the inner loop "for they_want in owner_of_wanted.plots_wanted[::-1]"
TwoWayInner ==
    /\ pc = "two_way_inner"
    /\ IF frame.s2 = << >>
       THEN pc' = "two_way_outer" /\ board' = board /\ frame' = frame
       ELSE LET r == two_way_match(board, self, frame.w1, Head(frame.s2))
            IN  /\ pc' = pc
                /\ board' = r.board
                /\ frame' = [frame EXCEPT !.s2 = Tail(@),
                                !.trade_happened = @ \/ r.ret]
    /\ UNCHANGED <<i, turn, go_again, ret, calls, entry>>

\* three_way_trade, "for wanted1 in self.plots_wanted[::-1]"
ThreeWay1 ==
    /\ pc = "three_way_1"
    /\ IF frame.s1 = << >>
       THEN pc' = "roll" /\ frame' = NoFrame
       ELSE LET wanted1 == Head(frame.s1)
                owner_of_wanted1 == board.b[wanted1].owner
            IN  IF owner_of_wanted1 = None
                THEN pc' = pc /\ frame' = [frame EXCEPT !.s1 = Tail(@)]
                ELSE /\ pc' = "three_way_2"
                     /\ frame' = [frame EXCEPT
                            !.s1 = Tail(@), !.w1 = wanted1, !.o1 = owner_of_wanted1,
                            !.s2 = Reverse(board.players[owner_of_wanted1].plots_wanted)]
    /\ UNCHANGED <<board, i, turn, go_again, ret, calls, entry>>

\* three_way_trade, "for wanted2 in owner_of_wanted1.plots_wanted[::-1]"
ThreeWay2 ==
    /\ pc = "three_way_2"
    /\ IF frame.s2 = << >>
       THEN pc' = "three_way_1" /\ frame' = frame
       ELSE LET wanted2 == Head(frame.s2)
                owner_of_wanted2 == board.b[wanted2].owner
            IN  IF owner_of_wanted2 = None
                THEN pc' = pc /\ frame' = [frame EXCEPT !.s2 = Tail(@)]
                ELSE /\ pc' = "three_way_3"
                     /\ frame' = [frame EXCEPT
                            !.s2 = Tail(@), !.w2 = wanted2, !.o2 = owner_of_wanted2,
                            !.s3 = Reverse(board.players[owner_of_wanted2].plots_wanted)]
    /\ UNCHANGED <<board, i, turn, go_again, ret, calls, entry>>

\* three_way_trade, "for wanted3 in owner_of_wanted2.plots_wanted[::-1]"
ThreeWay3 ==
    /\ pc = "three_way_3"
    /\ IF frame.s3 = << >>
       THEN pc' = "three_way_2" /\ board' = board /\ frame' = frame
       ELSE LET r == three_way_match(board, self, frame.w1, frame.o1,
                                     frame.w2, frame.o2, Head(frame.s3))
            IN  /\ pc' = pc
                /\ board' = r.board
                /\ frame' = [frame EXCEPT !.s3 = Tail(@),
                                !.trade_happened = @ \/ r.ret]
    /\ UNCHANGED <<i, turn, go_again, ret, calls, entry>>

\* the roll of the dice, the doubles, the jail and the move of the piece
Roll ==
    /\ pc = "roll"
    /\ \E dice1 \in 1..6, dice2 \in 1..6 :
          LET r == roll_and_move(board, self, dice1, dice2)
          IN  /\ board' = r.board
              /\ go_again' = r.go_again
              /\ IF r.returned
                 THEN pc' = "returned" /\ ret' = "False"
                 ELSE pc' = "action" /\ ret' = ret
    /\ UNCHANGED <<i, turn, frame, calls, entry>>

\* "board.action(self, self.position)"
Action ==
    /\ pc = "action"
    /\ board' = board_action(board, self, board.players[self].position, "")
    /\ pc' = "bankruptcy"
    /\ UNCHANGED <<i, turn, go_again, ret, frame, calls, entry>>

\* "self.check_bankruptcy(board)", one pass of its loop at a time, and the
\* return of make_a_move after it
CheckBankruptcy ==
    /\ pc = "bankruptcy"
    /\ IF board.players[self].money < 0 /\ ~board.players[self].is_bankrupt
       THEN LET worst_asset == choose_property_to_mortgage_downgrade(board, self)
            IN  /\ board' = IF worst_asset = 0
                            THEN go_bankrupt(board, self)
                            ELSE liquidate(board, self, worst_asset)
                /\ pc' = pc
                /\ ret' = ret
       ELSE /\ board' = board
            /\ pc' = "returned"
            /\ ret' = IF go_again THEN "True" ELSE "False"
    /\ UNCHANGED <<i, turn, go_again, frame, calls, entry>>

(***************************************************************************)
(* The states a behaviour starts from: the new game, and states of a game  *)
(* in progress.                                                            *)
(***************************************************************************)
\* a shuffled deck: the 16 cards, from card k on
Deck(k) == [j \in 1..16 |-> (k + j - 1) % 16]

\* one_game: build_player_list and Board.__init__ (decks as shuffled to Deck(k))
NewBoard(k) ==
    [b |-> [j \in Plots |-> NewPlot],
     players |-> [p \in Players |-> NewPlayer(settingStartingMoney)],
     nHouses |-> 0, nHotels |-> 0,
     chanceCards |-> Deck(k), communityCards |-> Deck(k)]

\* the price of redemption Property.mortgage writes in the ledger
Redemption(position) == ((Cell(position).cost_base \div 2) * 11) \div 10

\* A game in progress.  plots[p] are the plots of player p and money[p] the
\* cash, for the first three players of the list (a further player owns
\* nothing yet); mortgaged are the mortgaged plots, each in the ledger of
\* its owner; levels gives the improved plots their level.  The flags and
\* the cached lists are what recalculate_after_property_change left.
Midgame(plots, mortgaged, levels, money, k) ==
    LET owner(j) == IF \E p \in 1..3 : j \in plots[p]
                    THEN CHOOSE p \in 1..3 : j \in plots[p]
                    ELSE None
        level(j) == IF j \in DOMAIN levels THEN levels[j] ELSE 0
        ledger(p) == [n \in 1..Len(SetToSeq(mortgaged \cap plots[p])) |->
                        << SetToSeq(mortgaged \cap plots[p])[n],
                           Redemption(SetToSeq(mortgaged \cap plots[p])[n]) >>]
    IN  recalculate_after_property_change(
          [b |-> [j \in Plots |->
                    [owner |-> owner(j), is_mortgaged |-> j \in mortgaged,
                     is_monopoly |-> FALSE, hasHouses |-> level(j)]],
           players |-> [p \in Players |->
                    IF p <= 3
                    THEN [NewPlayer(money[p]) EXCEPT !.has_mortgages = ledger(p)]
                    ELSE NewPlayer(settingStartingMoney)],
           nHouses |-> Sum([n \in 1..Len(PlotSeq) |->
                            IF level(PlotSeq[n]) < 5 THEN level(PlotSeq[n]) ELSE 0]),
           nHotels |-> Cardinality({j \in Plots : level(j) = 5}),
           chanceCards |-> Deck(k), communityCards |-> Deck(k)])

\* the player p stands on the cell position
At(bd, p, position) == [bd EXCEPT !.players[p].position = position]

\* Rents of every kind are due: player 2 holds the light blue plots
\* unimproved, the pink plots with houses, three railroads and one utility;
\* player 3 holds one orange plot, one railroad and the other utility.
RentBoard(k) ==
    Midgame(<< {}, {6, 8, 9, 11, 13, 14, 5, 15, 25, 12}, {16, 35, 28} >>,
            {}, (11 :> 2) @@ (13 :> 1) @@ (14 :> 1), <<1500, 800, 800>>, k)

\* A two-way trade is due: player 1 lacks plot 9 of the light blue plots and
\* has one orange plot, player 2 lacks plot 16 of the orange plots and has
\* plot 9, mortgaged or not.
TwoWayBoard(mortgaged) ==
    Midgame(<< {6, 8, 16}, {9, 18, 19}, {} >>, mortgaged, << >>, <<1500, 800, 800>>, 0)

\* The two-way trade again, nothing mortgaged, player 2 with the 60 the
\* plot 16 costs more than the plot 9, or with less
TightTradeBoard(money) ==
    [TwoWayBoard({}) EXCEPT !.players[2].money = money]

\* Two two-way trades match the plot 9 player 1 wants: player 2, who has it,
\* wants the brown plot 1 and the orange plot 19 of player 1
StaleBoard ==
    Midgame(<< {1, 6, 8, 19}, {3, 9, 16, 18}, {} >>, {}, << >>, <<1500, 800, 800>>, 0)

\* A three-way trade is due: player 1 wants plot 9 of player 2, who wants
\* plot 19 of player 3, who wants plot 11 of player 1.
ThreeWayBoard ==
    Midgame(<< {6, 8, 11}, {9, 16, 18}, {19, 13, 14} >>, {}, << >>, <<1500, 800, 800>>, 0)

\* The three-way trade again, player 2 with the 80 the plot 19 costs more
\* than the plot 9, or with a dollar more
TightRingBoard(money) ==
    [ThreeWayBoard EXCEPT !.players[2].money = money]

\* The three-way trade with two plots of player 1 that player 3 wants: the
\* pink plot 11 and the red plot 24
StaleRingBoard ==
    Midgame(<< {6, 8, 11, 24}, {9, 16, 18}, {19, 13, 14, 21, 23} >>, {}, << >>,
            <<1500, 800, 800>>, 0)

\* Every player lacks one plot of a group of two and holds one plot of
\* another: player 1 has one indigo plot and one utility, player 2 the other
\* indigo plot and one brown plot, player 3 the other brown plot and the
\* other utility.
TwoMemberBoard ==
    Midgame(<< {37, 12}, {39, 1}, {3, 28} >>, {}, << >>, <<1500, 800, 800>>, 0)

\* The bank is one house short of running out of houses: player 1 has 31
\* houses on the brown, light blue and pink plots, the orange plots bare,
\* and cash; player 2 has both utilities.
HousesBoard ==
    Midgame(<< {1, 3, 6, 8, 9, 11, 13, 14, 16, 18, 19}, {5, 12, 28}, {15} >>, {},
            (1 :> 4) @@ (3 :> 4) @@ (6 :> 4) @@ (8 :> 4) @@ (9 :> 4)
                @@ (11 :> 4) @@ (13 :> 4) @@ (14 :> 3),
            <<1500, 800, 800>>, 0)

\* Player 1 has built on the pink plots, one house on each and a second one
\* on the plot 14, and has cash
UnevenBoard ==
    Midgame(<< {11, 13, 14}, {5, 12, 28}, {15} >>, {},
            (11 :> 1) @@ (13 :> 1) @@ (14 :> 2), <<1500, 800, 800>>, 0)

\* The bank is one hotel short of running out of hotels: player 1 has 11
\* hotels, four houses on each red plot, and cash.
HotelsBoard ==
    Midgame(<< {1, 3, 6, 8, 9, 11, 13, 14, 16, 18, 19, 21, 23, 24}, {5}, {15} >>, {},
            (1 :> 5) @@ (3 :> 5) @@ (6 :> 5) @@ (8 :> 5) @@ (9 :> 5)
                @@ (11 :> 5) @@ (13 :> 5) @@ (14 :> 5)
                @@ (16 :> 5) @@ (18 :> 5) @@ (19 :> 5)
                @@ (21 :> 4) @@ (23 :> 4) @@ (24 :> 4),
            <<1500, 800, 800>>, 0)

\* Player 1 has a house on each brown plot, a mortgaged railroad and little
\* or much cash, in front of the hotel and the houses of player 2.
PoorBoard(k, money) ==
    Midgame(<< {1, 3, 5}, {37, 39}, {31} >>, {5},
            (1 :> 1) @@ (3 :> 1) @@ (37 :> 4) @@ (39 :> 5), <<money, 800, 800>>, k)

\* Player 1 has four houses on the brown plot 1 and a hotel on the plot 3, a
\* mortgaged railroad and little cash, in front of the hotel and the houses
\* of player 2.
HotelDebtBoard ==
    Midgame(<< {1, 3, 5}, {37, 39}, {31} >>, {5},
            (1 :> 4) @@ (3 :> 5) @@ (37 :> 4) @@ (39 :> 5), <<30, 800, 800>>, 0)

\* a deck with one card out, in the hand of a player
Without(deck, card) == SelectSeq(deck, LAMBDA c : c # card)

\* Player 1 is in jail, days_in_jail rolls without doubles behind, with the
\* jail card of the Chance deck (card 1), of the Community deck (card 6),
\* with both or with none.  A card is used at the first roll in jail, so that
\* a player in jail who has a card has days_in_jail 0.
JailBoard(k, chance, community, days_in_jail) ==
    LET bd == RentBoard(k)
    IN  [bd EXCEPT !.players[1].position = 10,
                   !.players[1].in_jail = TRUE,
                   !.players[1].days_in_jail = days_in_jail,
                   !.players[1].has_jail_card_chance = chance,
                   !.players[1].has_jail_card_community = community,
                   !.chanceCards = IF chance THEN Without(@, 1) ELSE @,
                   !.communityCards = IF community THEN Without(@, 6) ELSE @]

\* Player 3 has gone bankrupt on the plot 6 of player 2, 20 short of the
\* rent: the plots of player 3 are back on the market
Bankrupt3(k) ==
    go_bankrupt([RentBoard(k) EXCEPT !.players[3].position = 6,
                                     !.players[3].money = 0 - 20], 3)

\* and player 2 has gone bankrupt too, 5 short after the sale of its four
\* houses and the mortgage of its ten plots, which are back on the market:
\* the game is over
GameOverBoard ==
    check_bankruptcy([Bankrupt3(0) EXCEPT !.players[2].position = 38,
                                          !.players[2].money = 0 - 960], 2)

\* Player 1 has the light blue plots, the plot 6 mortgaged, no building, and
\* cash for three houses, which is less than three times the price of the
\* redemption
MortgagedMonopolyBoard ==
    Midgame(<< {6, 8, 9}, {16, 18}, {19} >>, {6}, << >>, <<160, 800, 800>>, 0)

\* The same plots and cash of player 1, in front of the hotel and the houses
\* of player 2
MortgagedDebtBoard ==
    Midgame(<< {6, 8, 9}, {37, 39}, {31} >>, {6}, (37 :> 4) @@ (39 :> 5),
            <<160, 800, 800>>, 0)

\* A game played with behave_unspendable_cash set to 200: every player has
\* the cash_limit 200, and player 1, who has the light blue plots with the
\* plot 6 mortgaged (redemption 55), has 250
FloorBoard ==
    LET bd == Midgame(<< {6, 8, 9}, {16, 18}, {19} >>, {6}, << >>, <<250, 800, 800>>, 0)
    IN  [bd EXCEPT !.players = [p \in Players |-> [@[p] EXCEPT !.cash_limit = 200]]]

\* The Community card 1 is on top of its deck, and the players 2 and 3 have
\* less than the 50 the card takes from each of them
OperaDebtBoard ==
    [RentBoard(1) EXCEPT !.players[2].money = 20, !.players[3].money = 30]

\* Player 1 of the PoorBoard has thrown a double of four from the cell 29
\* to the four houses of player 2 on the plot 37 and has gone bankrupt on
\* the rent; make_a_move has returned True, and the next call None
DoublesBankruptBoard ==
    LET landed == [At(PoorBoard(0, 30), 1, 37)
                      EXCEPT !.players[1].consequent_doubles = 1,
                             !.players[1].dice = <<4, 4>>]
    IN  check_bankruptcy(
            property_action(landed, 37, 1, calculate_rent(landed, 37, <<4, 4>>, "")), 1)

\* Nobody has a plot, player 3 is bankrupt, player 2 has less than the 50 of
\* the Community card 1, which is on top of its deck
LastOpponentBoard ==
    go_bankrupt(Midgame(<< {}, {}, {} >>, {}, << >>, <<1500, 20, 0 - 20>>, 1), 3)

\* Player 1 of the LastOpponentBoard has thrown a double of one from GO to
\* the Community Chest and has drawn the card 1: player 2 has gone bankrupt
\* on the 50, player 1 is the only player left, and make_a_move has
\* returned True
WinnerGoesAgainBoard ==
    community_action([At(LastOpponentBoard, 1, 2)
                         EXCEPT !.players[1].consequent_doubles = 1,
                                !.players[1].dice = <<1, 1>>], 1)

\* Player 3 is on the utility 28 with the cash for the luxury tax and no
\* more, and has no plot
ExactCashBoard ==
    recalculate_after_property_change(
        [RentBoard(0) EXCEPT !.b = [j \in Plots |->
                                      IF @[j].owner = 3 THEN NewPlot ELSE @[j]],
                             !.players[3].position = 28,
                             !.players[3].money = settingsLuxuryTax])

\* Player 1, who has no plot, is on the utility 28 with the price of a green
\* plot or a dollar more
BuyerBoard(money) ==
    [At(RentBoard(0), 1, 28) EXCEPT !.players[1].money = money]

\* the states at the top of a round, player 1 about to move
RoundStarts ==
    {NewBoard(k) : k \in 0..15}
    \cup {At(RentBoard(k), 1, position) : k \in 0..15, position \in {0, 20, 28}}
    \cup {At(TwoWayBoard(mortgaged), 1, 20) : mortgaged \in {{}, {9}}}
    \cup {At(TightTradeBoard(money), 1, 20) : money \in {59, 60}}
    \cup {At(ThreeWayBoard, 1, 20), At(HousesBoard, 1, 20), At(HotelsBoard, 1, 20)}
    \cup {At(StaleBoard, 1, 20), At(StaleRingBoard, 1, 20), At(UnevenBoard, 1, 20)}
    \cup {At(TightRingBoard(money), 1, 20) : money \in {80, 81}}
    \cup {At(TwoMemberBoard, 1, 20), At(MortgagedMonopolyBoard, 1, 20)}
    \cup {BuyerBoard(money) : money \in {Cell(31).cost_base, Cell(31).cost_base + 1}}
    \cup {At(PoorBoard(k, money), 1, 28) : k \in {0, 1, 8}, money \in {30, 1500}}
    \cup {At(HotelDebtBoard, 1, 28), At(MortgagedDebtBoard, 1, 28)}
    \cup {At(PoorBoard(0, 30), 1, 29), LastOpponentBoard}
    \cup {At(FloorBoard, 1, 20), At(OperaDebtBoard, 1, 0)}
    \cup {JailBoard(k, chance, community, 0) :
            k \in {4, 5}, chance \in BOOLEAN, community \in BOOLEAN}
    \cup {JailBoard(k, FALSE, FALSE, days_in_jail) :
            k \in {4, 5}, days_in_jail \in {1, 2}}
    \cup {Bankrupt3(k) : k \in {1, 11}}
    \cup {GameOverBoard}

\* the states in the middle of a turn: player 1 has thrown two doubles of
\* five from GO, over the prison to the free parking, or one, to the
\* prison, or a double that left no other player in the game, and goes again
TurnStarts ==
    {[At(RentBoard(k), 1, 20) EXCEPT !.players[1].consequent_doubles = 2,
                                     !.players[1].dice = <<5, 5>>] : k \in {0}}
    \cup {[At(RentBoard(0), 1, 10) EXCEPT !.players[1].consequent_doubles = 1,
                                          !.players[1].dice = <<5, 5>>]}
    \cup {WinnerGoesAgainBoard}

\* the states in a round that is not the last, the players before the third
\* have moved
LaterTurns ==
    {DoublesBankruptBoard}

\* the states in the last round of the game, the players before the third
\* have moved
LastTurns ==
    {Bankrupt3(0), GameOverBoard, ExactCashBoard, At(RentBoard(0), 3, 20),
     At(TwoWayBoard({9}), 3, 0)}

Init ==
    /\ \/ /\ board \in RoundStarts
          /\ pc = "game_loop" /\ i = 0 /\ turn = 1 /\ ret = "None"
       \/ /\ board \in TurnStarts
          /\ pc = "make_a_move" /\ i = 0 /\ turn = 1 /\ ret = "True"
       \/ /\ board \in LastTurns
          /\ pc = "players_loop" /\ i = nMoves - 1 /\ turn = 3 /\ ret = "False"
       \/ /\ board \in LaterTurns
          /\ pc = "players_loop" /\ i = 0 /\ turn = 3 /\ ret = "False"
    /\ go_again = FALSE
    /\ frame = NoFrame
    /\ calls = 0
    /\ entry = board

Next ==
    \/ GameLoop
    \/ PlayersLoop
    \/ Returned
    \/ MakeAMove
    \/ Repay
    \/ Build
    \/ Trade
    \/ TwoWayOuter
    \/ TwoWayInner
    \/ ThreeWay1
    \/ ThreeWay2
    \/ ThreeWay3
    \/ Roll
    \/ Action
    \/ CheckBankruptcy

Spec == Init /\ [][Next]_vars

(***************************************************************************)
(* Properties.                                                             *)
(***************************************************************************)
\* the pairs of dice
Dice == (1..6) \X (1..6)

\* the values of the parameter special of Board.action and calculate_rent
Specials == {"", "from_chance"}

\* the Player object of the player who moves, now and at the call
Me == board.players[self]
MeAtEntry == entry.players[self]

\* C1: whenever Board.action is about to run, for every colour plot, every
\* pair of dice and either value of special, calculate_rent is rent_base for
\* an unimproved plot that is no monopoly, 2 * rent_base for an unimproved
\* plot of a monopoly and rent_house[hasHouses - 1] for a plot with houses,
\* whatever the monopoly flag; no term depends on the dice.
C1_ColourRent ==
    pc = "action" =>
        \A position \in ColourPlots :
            LET plot == board.b[position]
                rent == IF plot.hasHouses > 0
                        THEN Cell(position).rent_house[plot.hasHouses]
                        ELSE IF plot.is_monopoly
                        THEN 2 * Cell(position).rent_base
                        ELSE Cell(position).rent_base
            IN  \A dice \in Dice, special \in Specials :
                    calculate_rent(board, position, dice, special) = rent

\* player 1 has landed on the unimproved light blue plot 6 of the monopoly
\* of player 2 and has paid twice its rent_base
C1_Witness ==
    /\ pc = "bankruptcy"
    /\ Me.position = 6
    /\ board.b[6].owner = 2 /\ board.b[6].is_monopoly /\ board.b[6].hasHouses = 0
    /\ Me.money = MeAtEntry.money - 2 * Cell(6).rent_base
    /\ board.players[2].money = entry.players[2].money + 2 * Cell(6).rent_base

\* C2: whenever Board.action is about to run, for every pair of dice,
\* calculate_rent for a utility is ten times the sum of the dice when the
\* utilities are a monopoly or special is from_chance, and four times the sum
\* otherwise; for a railroad that has an owner it is 25 times the number of
\* railroads of that owner, twice that when special is from_chance.
C2_UtilityRailroadRent ==
    pc = "action" =>
        /\ \A position \in GroupPlots("UTILITY"), dice \in Dice, special \in Specials :
              calculate_rent(board, position, dice, special) =
                  IF board.b[position].is_monopoly \/ special = "from_chance"
                  THEN (dice[1] + dice[2]) * 10
                  ELSE (dice[1] + dice[2]) * 4
        /\ \A position \in GroupPlots("RAILROAD") :
              board.b[position].owner # None =>
                  LET railroads == Cardinality({j \in GroupPlots("RAILROAD") :
                                      board.b[j].owner = board.b[position].owner})
                  IN  \A dice \in Dice, special \in Specials :
                          calculate_rent(board, position, dice, special) =
                              IF special = "from_chance"
                              THEN 2 * (25 * railroads)
                              ELSE 25 * railroads

\* the Chance card "advance to the nearest railroad" has taken player 1 from
\* cell 7 to the railroad 15 of player 2, who has three railroads, and
\* player 1 has paid twice the 75
C2_Witness ==
    /\ pc = "bankruptcy"
    /\ Me.position = 15 /\ Me.dice[1] + Me.dice[2] = 7
    /\ MeAtEntry.position = 0
    /\ Cardinality({j \in GroupPlots("RAILROAD") : board.b[j].owner = 2}) = 3
    /\ board.players[2].money = entry.players[2].money + 150
    /\ Me.money = MeAtEntry.money - 150

\* C3: when a player who is not in jail and has two doubles in a row rolls
\* doubles, the roll puts the player on cell 10 with in_jail set and
\* consequent_doubles 0 and make_a_move returns False: the dice are not added
\* to the position, no salary is paid, and nothing else of the board changes
\* (no cell action).
C3_ThirdDoubles ==
    [][(/\ pc = "roll"
        /\ ~Me.in_jail
        /\ Me.consequent_doubles = 2
        /\ board'.players[self].dice[1] = board'.players[self].dice[2])
       => /\ pc' = "returned" /\ ret' = "False"
          /\ board' = [board EXCEPT
                          !.players[self].dice = board'.players[self].dice,
                          !.players[self].position = 10,
                          !.players[self].in_jail = TRUE,
                          !.players[self].consequent_doubles = 0]]_vars

\* player 1 came to the call with two doubles in a row, out of jail, and the
\* call has returned False with the player in jail after a third
C3_Witness ==
    /\ pc = "returned" /\ ret = "False" /\ calls = 1
    /\ MeAtEntry.consequent_doubles = 2 /\ ~MeAtEntry.in_jail
    /\ MeAtEntry.position = 20
    /\ Me.dice[1] = Me.dice[2]
    /\ Me.position = 10 /\ Me.in_jail /\ Me.consequent_doubles = 0
    /\ Me.money = MeAtEntry.money

\* the debts check_bankruptcy is tried with: the cash replaced by a debt of
\* that size, or (0) the cash as it is
Debts == {1, 150, 5000}

Indebted(bd, player, debt) ==
    IF debt = 0 THEN bd ELSE [bd EXCEPT !.players[player].money = 0 - debt]

\* what C4 says of the board after check_bankruptcy, given the board before
Resolved(before, after, player) ==
    \/ /\ ~after.players[player].is_bankrupt
       /\ after.players[player].money >= 0
    \/ /\ after.players[player].is_bankrupt
       /\ \A j \in Plots :
             before.b[j].owner = player =>
                 after.b[j].owner = None /\ ~after.b[j].is_mortgaged

\* what is left to sell or to mortgage: the unmortgaged plots of the player
\* and the buildings on them
Liquidatable(bd, player) ==
    Sum([k \in 1..Len(PlotSeq) |->
            LET plot == bd.b[PlotSeq[k]]
            IN  IF plot.owner = player /\ ~plot.is_mortgaged
                THEN 1 + plot.hasHouses
                ELSE 0])

\* check_bankruptcy, called for the player on the board with the debt, returns
\* what C4 says
Resolves(bd, player, debt) ==
    With(Indebted(bd, player, debt), LAMBDA before :
        With(check_bankruptcy(before, player), LAMBDA after :
            Resolved(before, after, player)))

\* C4: check_bankruptcy terminates, and returns either with the player not
\* bankrupt and cash >= 0, or with the player bankrupt and every plot the
\* player owned before the call unowned and unmortgaged.  First the function
\* as a whole: evaluated for the board at the call in make_a_move with the
\* cash as it is, and for the board at the roll for every player with debts
\* of several sizes.  Then the loop of the call, pass by pass: a pass that
\* does not end in bankruptcy leaves less to sell or to mortgage than there
\* was, the pass after a bankruptcy is the last, every pass keeps what the
\* function returns, and the board at the return is what the function
\* returns.
C4_CheckBankruptcy ==
    /\ [](/\ pc = "bankruptcy" /\ ~Me.is_bankrupt => Resolves(board, self, 0)
          /\ pc = "roll" =>
                \A player \in Players, debt \in Debts :
                    ~board.players[player].is_bankrupt => Resolves(board, player, debt))
    /\ [][pc = "bankruptcy" =>
             /\ (pc' = "bankruptcy" /\ ~board'.players[self].is_bankrupt)
                    => Liquidatable(board', self) < Liquidatable(board, self)
             /\ Me.is_bankrupt => pc' = "returned"
             /\ check_bankruptcy(board', self) = check_bankruptcy(board, self)
             /\ pc' = "returned" => check_bankruptcy(board, self) = board]_vars

\* player 1 came to the call with a mortgaged plot and plots with houses, and
\* the call has returned with the player bankrupt, the cash negative and all
\* these plots back on the market
C4_Witness ==
    /\ pc = "returned"
    /\ Me.is_bankrupt /\ Me.money < 0
    /\ \E j \in Plots : entry.b[j].owner = self /\ entry.b[j].is_mortgaged
    /\ \E j \in Plots : entry.b[j].owner = self /\ entry.b[j].hasHouses > 0
    /\ \A j \in Plots : entry.b[j].owner = self =>
                            board.b[j].owner = None /\ ~board.b[j].is_mortgaged

\* C5: the counters of the bank stay within their limits, 0 <= nHouses <=
\* settingHouseLimit and 0 <= nHotels <= settingHotelLimit, and when the
\* building improve_property would add is a house with nHouses at the limit,
\* or a hotel with nHotels at the limit, the call returns False and leaves
\* the board as it is, with the money the player has and with any larger sum.
C5_BuildingLimits ==
    /\ 0 <= board.nHouses /\ board.nHouses <= settingHouseLimit
    /\ 0 <= board.nHotels /\ board.nHotels <= settingHotelLimit
    /\ pc = "build" =>
          \A available_money \in {Me.money - Me.cash_limit, 5000, 100000} :
              LET property_to_improve ==
                      choose_property_to_build(board, self, available_money)
                  this_is_hotel == board.b[property_to_improve].hasHouses = 4
                  r == improve_property(board, self, available_money)
              IN  (/\ property_to_improve # 0
                   /\ \/ this_is_hotel /\ board.nHotels = settingHotelLimit
                      \/ ~this_is_hotel /\ board.nHouses = settingHouseLimit)
                  => r.ret = FALSE /\ r.board = board

\* the bank has sold its last house to player 1, who has the cash for the
\* next one and a plot to put it on, and is refused
C5_Witness ==
    /\ pc = "build"
    /\ board.nHouses = settingHouseLimit
    /\ entry.nHouses = settingHouseLimit - 1
    /\ choose_property_to_build(board, self, Me.money - Me.cash_limit) # 0
    /\ board.b[choose_property_to_build(board, self, Me.money - Me.cash_limit)].hasHouses < 4
    /\ Me.money > 1000
    /\ ~improve_property(board, self, Me.money - Me.cash_limit).ret

\* this pass of the inner loop of two_way_trade makes a trade, of the plot
\* i_want for the plot they_want
TwoWayTraded ==
    /\ pc = "two_way_inner"
    /\ frame.s2 # << >>
    /\ two_way_match(board, self, frame.w1, Head(frame.s2)).ret

\* the two plots of the trade, the cheaper one first
TradedPlots ==
    LET i_want == frame.w1
        they_want == Head(frame.s2)
    IN  IF Cell(i_want).cost_base < Cell(they_want).cost_base
        THEN <<i_want, they_want>> ELSE <<they_want, i_want>>

\* the price_diff of the trade
TradedDiff == Cell(TradedPlots[2]).cost_base - Cell(TradedPlots[1]).cost_base

\* the plot is not mortgaged and has no building
Unencumbered(bd, j) == ~bd.b[j].is_mortgaged /\ bd.b[j].hasHouses = 0

\* C6, as the code has it: in a two-way trade of two plots that are not
\* mortgaged and have no buildings, the owner of the cheaper plot pays
\* price_diff to the owner of the expensive one and the plots change hands, so
\* that the net worth of each of the two parties is after the trade what it
\* was before.
C6_TradeKeepsNetWorth ==
    [][(/\ TwoWayTraded
        /\ Unencumbered(board, TradedPlots[1])
        /\ Unencumbered(board, TradedPlots[2]))
       => LET payer == board.b[TradedPlots[1]].owner
              payee == board.b[TradedPlots[2]].owner
          IN  /\ net_worth(board', payer) = net_worth(board, payer)
              /\ net_worth(board', payee) = net_worth(board, payee)
              /\ board'.b[TradedPlots[1]].owner = payee
              /\ board'.b[TradedPlots[2]].owner = payer
              /\ payer # payee =>
                    /\ board'.players[payer].money =
                           board.players[payer].money - TradedDiff
                    /\ board'.players[payee].money =
                           board.players[payee].money + TradedDiff]_vars

\* C6, as the claim has it: in every two-way trade the net worth of each of
\* the two parties changes by exactly price_diff.
C6_Original ==
    [][TwoWayTraded
       => \A party \in {board.b[TradedPlots[1]].owner, board.b[TradedPlots[2]].owner} :
             \/ net_worth(board', party) - net_worth(board, party) = TradedDiff
             \/ net_worth(board, party) - net_worth(board', party) = TradedDiff]_vars

\* player 1 has traded the orange plot 16 for the light blue plot 9 of player
\* 2 and has received the 60 the plot 16 costs more
C6_Witness ==
    /\ pc = "two_way_inner"
    /\ frame.trade_happened
    /\ entry.b[9].owner = 2 /\ entry.b[16].owner = 1
    /\ ~entry.b[9].is_mortgaged
    /\ board.b[9].owner = 1 /\ board.b[16].owner = 2
    /\ board.players[1].money = entry.players[1].money + 60
    /\ board.players[2].money = entry.players[2].money - 60
    /\ net_worth(board, 1) = net_worth(entry, 1)
    /\ net_worth(board, 2) = net_worth(entry, 2)

\* the number of plots owned, summed over the players
Owned(bd) ==
    Sum([p \in 1..n_players |-> Cardinality({j \in Plots : bd.b[j].owner = p})])

\* C7: no step of two_way_trade or of three_way_trade changes the number of
\* plots owned by the players, summed over the players.
C7_TradesKeepCount ==
    [][(pc \in {"trade", "two_way_outer", "two_way_inner",
                "three_way_1", "three_way_2", "three_way_3"})
       => Owned(board') = Owned(board)]_vars

\* a three-way trade has been made: the three plots have changed hands and as
\* many plots are owned as at the call
C7_Witness ==
    /\ pc = "three_way_3"
    /\ frame.trade_happened
    /\ entry.b[frame.w1].owner = frame.o1 /\ board.b[frame.w1].owner = self
    /\ entry.b[frame.w2].owner = frame.o2 /\ board.b[frame.w2].owner = frame.o1
    /\ \E j \in Plots : entry.b[j].owner = self /\ board.b[j].owner = frame.o2
    /\ Owned(board) = Owned(entry)

\* C8: the flag is_monopoly of every plot is up to date: it is set exactly
\* when all the plots of its group have one owner, a player.
C8_MonopolyFlags ==
    \A j \in Plots :
        board.b[j].is_monopoly <=>
            \E p \in Players : \A m \in GroupPlots(Cell(j).group) : board.b[m].owner = p

\* a trade has given a player the last plot of a group: the flags of the
\* group were down at the call and are up
C8_Witness ==
    /\ pc = "two_way_inner"
    /\ frame.trade_happened
    /\ \E j \in Plots :
          /\ ~entry.b[j].is_monopoly /\ board.b[j].is_monopoly
          /\ \A m \in GroupPlots(Cell(j).group) : board.b[m].owner = self
    /\ \E j \in Plots : entry.b[j].owner = self /\ board.b[j].owner # self

\* the board after the plot j has gone to p (None: back to the bank), the
\* flags not yet recalculated
Changed(bd, j, p) == [bd EXCEPT !.b[j].owner = p]

\* the board a is the board b but for the flags is_monopoly
SameButFlags(a, b) ==
    [a EXCEPT !.b = [j \in Plots |->
        [a.b[j] EXCEPT !.is_monopoly = b.b[j].is_monopoly]]] = b

\* C9: check_monopolies called a second time changes nothing, and the first
\* call changes nothing but the flags is_monopoly: for the board at the roll of
\* the dice after any one plot has changed hands, the flags still as they were.
C9_CheckMonopoliesIdempotent ==
    pc = "roll" =>
        \A j \in Plots, p \in Players \cup {None} :
            With(Changed(board, j, p), LAMBDA stale :
                With(check_monopolies(stale), LAMBDA once :
                    /\ check_monopolies(once) = once
                    /\ SameButFlags(once, stale)))

\* on a board where a change of hands makes a monopoly and on one where it
\* breaks a monopoly, so that the first call has flags to change
C9_Witness ==
    /\ pc = "roll"
    /\ \E j \in Plots, p \in Players :
          /\ ~board.b[j].is_monopoly
          /\ check_monopolies(Changed(board, j, p)).b[j].is_monopoly
    /\ \E j \in Plots, p \in Players \cup {None} :
          /\ board.b[j].is_monopoly /\ board.b[j].hasHouses > 0
          /\ ~check_monopolies(Changed(board, j, p)).b[j].is_monopoly

\* the player in jail has exactly one of the two jail cards
OneJailCard(player) == player.has_jail_card_chance # player.has_jail_card_community

\* C10, as the code has it: a player in jail with exactly one jail card who
\* rolls no doubles is released by the roll: when the piece has been moved, and
\* before the action of the cell, the player is out of jail with the same cash
\* (no fine) and the same days_in_jail, has no jail card, and the card is the
\* last of its deck, the other deck as it was.
C10_CardRelease ==
    [][(/\ pc = "roll"
        /\ Me.in_jail
        /\ OneJailCard(Me)
        /\ board'.players[self].dice[1] # board'.players[self].dice[2])
       => LET after == board'.players[self]
          IN  /\ pc' = "action"
              /\ ~after.in_jail
              /\ after.money = Me.money
              /\ after.days_in_jail = Me.days_in_jail
              /\ ~after.has_jail_card_chance /\ ~after.has_jail_card_community
              /\ Me.has_jail_card_chance =>
                    board'.chanceCards = Append(board.chanceCards, 1)
              /\ Me.has_jail_card_community =>
                    board'.communityCards = Append(board.communityCards, 6)
              /\ ~Me.has_jail_card_chance =>
                    board'.chanceCards = board.chanceCards
              /\ ~Me.has_jail_card_community =>
                    board'.communityCards = board.communityCards]_vars

\* C10, as the claim has it: at the return of the call such a player is out
\* of jail, days_in_jail is what it was, the player has no jail card and the
\* card is the last of its deck.
C10_Original ==
    (/\ pc = "returned" /\ ret # "None"
     /\ MeAtEntry.in_jail
     /\ OneJailCard(MeAtEntry)
     /\ Me.dice[1] # Me.dice[2])
    => /\ ~Me.in_jail
       /\ Me.days_in_jail = MeAtEntry.days_in_jail
       /\ ~Me.has_jail_card_chance /\ ~Me.has_jail_card_community
       /\ IF MeAtEntry.has_jail_card_chance
          THEN board.chanceCards[Len(board.chanceCards)] = 1
          ELSE board.communityCards[Len(board.communityCards)] = 6

\* player 1 came to the call in jail with the card of the Community deck, has
\* rolled no doubles and stands on the cell the dice lead to, free, with the
\* cash and the days of before, the card last in the deck
C10_Witness ==
    /\ pc = "action"
    /\ MeAtEntry.in_jail /\ MeAtEntry.position = 10
    /\ MeAtEntry.has_jail_card_community /\ ~MeAtEntry.has_jail_card_chance
    /\ MeAtEntry.days_in_jail = 0
    /\ Me.dice[1] # Me.dice[2]
    /\ Me.position = 10 + Me.dice[1] + Me.dice[2]
    /\ ~Me.in_jail /\ Me.days_in_jail = 0 /\ Me.money = MeAtEntry.money
    /\ ~Me.has_jail_card_community
    /\ board.communityCards = Append(entry.communityCards, 6)

\* the group has two plots
TwoMember(group) == Cardinality(GroupPlots(group)) = 2

\* the plots of the groups of two
TwoMemberPlots == {j \in Plots : TwoMember(Cell(j).group)}

\* the player lacks the plot j and nothing else of its group
Lacks(bd, player, j) ==
    /\ bd.b[j].owner # player
    /\ \A m \in GroupPlots(Cell(j).group) \ {j} : bd.b[m].owner = player

\* the plot j is the only plot of its group the player has, and is free of
\* a mortgage
Spare(bd, player, j) ==
    /\ bd.b[j].owner = player
    /\ ~bd.b[j].is_mortgaged
    /\ \A m \in GroupPlots(Cell(j).group) \ {j} : bd.b[m].owner # player

\* a ring of three plots of three groups of two: the player lacks wanted1,
\* whose owner lacks wanted2, whose owner lacks wanted3, the spare plot of
\* the player, and each of the three has the cash for the difference of the
\* prices
TwoMemberRing(bd, player, wanted1, wanted2, wanted3) ==
    LET owner_of_wanted1 == bd.b[wanted1].owner
        owner_of_wanted2 == bd.b[wanted2].owner
        topay1 == Cell(wanted1).cost_base - Cell(wanted3).cost_base
        topay2 == Cell(wanted2).cost_base - Cell(wanted1).cost_base
        topay3 == Cell(wanted3).cost_base - Cell(wanted2).cost_base
    IN  /\ Cardinality({Cell(wanted1).group, Cell(wanted2).group,
                        Cell(wanted3).group}) = 3
        /\ owner_of_wanted1 # None /\ owner_of_wanted2 # None
        /\ Cardinality({player, owner_of_wanted1, owner_of_wanted2}) = 3
        /\ Lacks(bd, player, wanted1)
        /\ Lacks(bd, owner_of_wanted1, wanted2)
        /\ Lacks(bd, owner_of_wanted2, wanted3)
        /\ Spare(bd, player, wanted3)
        /\ bd.players[player].money - topay1 > bd.players[player].cash_limit
        /\ bd.players[owner_of_wanted1].money - topay2
              > bd.players[owner_of_wanted1].cash_limit
        /\ bd.players[owner_of_wanted2].money - topay3
              > bd.players[owner_of_wanted2].cash_limit

\* C11: a three-way trade of three plots of three distinct groups of two is
\* not made: when the player who moves lacks a plot of a group of two, its
\* owner lacks a plot of a second group of two, the owner of that one lacks
\* the spare plot the player has of a third, and all three have the cash, no
\* step of three_way_trade changes the owner of any of the three plots or the
\* cash of any player.
C11_NoTradeOfTwoMemberGroups ==
    [][(pc \in {"three_way_1", "three_way_2", "three_way_3"})
       => \A wanted1 \in TwoMemberPlots, wanted2 \in TwoMemberPlots,
             wanted3 \in TwoMemberPlots :
             TwoMemberRing(board, self, wanted1, wanted2, wanted3)
             => /\ board'.b[wanted1].owner = board.b[wanted1].owner
                /\ board'.b[wanted2].owner = board.b[wanted2].owner
                /\ board'.b[wanted3].owner = board.b[wanted3].owner
                /\ \A p \in Players :
                      board'.players[p].money = board.players[p].money]_vars

\* player 1 lacks the indigo plot 39 of player 2, who lacks the brown plot 3
\* of player 3, who lacks the utility 12, the spare one of player 1;
\* three_way_trade has run and has returned, and every plot is where it was
C11_Witness ==
    /\ pc = "roll" /\ self = 1
    /\ TwoMemberRing(entry, 1, 39, 3, 12)
    /\ entry.b[39].owner = 2 /\ entry.b[3].owner = 3
    /\ \A j \in Plots : board.b[j].owner = entry.b[j].owner
    /\ \A p \in Players : board.players[p].money = entry.players[p].money

\* the steps of make_a_move between the test of is_bankrupt and the action of
\* the cell
BeforeAction == {"repay", "build", "trade", "two_way_outer", "two_way_inner",
                 "three_way_1", "three_way_2", "three_way_3", "roll", "action"}

\* C12: is_bankrupt is terminal.  A bankrupt player has no plot and is in no
\* step of make_a_move past its first test, and the owners a trade function
\* deals with are not bankrupt; no step changes anything of the Player object
\* of a bankrupt player (the flag, the cash, the position, the dice, the jail
\* cards, the cached lists); and a make_a_move call of a bankrupt player
\* returns at once, the board as it was.
C12_BankruptIsTerminal ==
    /\ [](/\ \A p \in Players :
                board.players[p].is_bankrupt =>
                    \A j \in Plots : board.b[j].owner # p
          /\ (pc \in BeforeAction) => ~Me.is_bankrupt
          /\ (pc \in {"two_way_inner", "three_way_2", "three_way_3"})
                => ~board.players[frame.o1].is_bankrupt
          /\ (pc = "three_way_3") => ~board.players[frame.o2].is_bankrupt)
    /\ [][/\ \A p \in Players :
                board.players[p].is_bankrupt =>
                    board'.players[p] = board.players[p]
          /\ (pc = "make_a_move" /\ Me.is_bankrupt)
                => (pc' = "returned" /\ ret' = "None" /\ board' = board)]_vars

\* player 3 was bankrupt at the call; player 1 has drawn the Chance card
\* "pay each player $50" and has paid player 2 and nobody else
C12_Witness ==
    /\ pc = "bankruptcy" /\ self = 1
    /\ entry.players[3].is_bankrupt /\ ~entry.players[2].is_bankrupt
    /\ Me.position = 7 /\ Head(entry.chanceCards) = 11
    /\ Me.money = MeAtEntry.money - 50
    /\ board.players[2].money = entry.players[2].money + 50
    /\ board.players[3] = entry.players[3]

\* the players who are not bankrupt
Alive(bd) == {p \in Players : ~bd.players[p].is_bankrupt}

\* the calls "while player.make_a_move(game_board)" can still make for a
\* player whose next call finds the Player object me: one for a player who
\* is bankrupt or in jail (the call returns None or False), else one for
\* every double that is still short of the third in a row
CallsLeft(me) ==
    IF me.is_bankrupt \/ me.in_jail THEN 1 ELSE 3 - me.consequent_doubles

\* the buildings that can still be put on the board
Buildable(bd) ==
    Sum([k \in 1..Len(PlotSeq) |-> 5 - bd.b[PlotSeq[k]].hasHouses])

\* the place of a step in the body of make_a_move, the last step lowest
Rank(label) ==
    CASE label = "repay" -> 12
      [] label = "build" -> 11
      [] label = "trade" -> 10
      [] label \in {"two_way_outer", "two_way_inner"} -> 9
      [] label \in {"three_way_1", "three_way_2", "three_way_3"} -> 8
      [] label = "roll" -> 7
      [] label = "action" -> 6
      [] label = "bankruptcy" -> 5
      [] OTHER -> 0

\* What is left of one_game, as a tuple of natural numbers in the order of
\* Python tuples: the rounds left; the players left in the round; whether the
\* test of the inner for loop is still to come; the calls left of the while
\* loop; the place in make_a_move; and what is left of the loop of that
\* place (mortgages to repay, buildings to build, plots of the lists of the
\* trade loops, things to sell or to mortgage).
Left(bd, label, round, player, returned, fr, at_call) ==
    LET me == bd.players[IF player \in Players THEN player ELSE 1]
        in_call == Rank(label) > 0
        inner == IF label \in {"two_way_inner", "three_way_2", "three_way_3"}
                 THEN 1 ELSE 0
        innermost == IF label = "three_way_3" THEN 1 ELSE 0
        trading == Rank(label) \in {8, 9}
    IN  << IF label = "done" THEN 0 ELSE nMoves + 1 - round,
           IF label = "done" THEN 0
           ELSE IF label = "game_loop" THEN n_players + 2
           ELSE n_players + 1 - player,
           IF label = "players_loop" THEN 1 ELSE 0,
           IF label = "make_a_move" THEN 2 * CallsLeft(me)
           ELSE IF in_call
           THEN 2 * CallsLeft(at_call.players[player]) - 1
           ELSE IF label = "returned" /\ returned = "True"
           THEN 2 * CallsLeft(me) + 1
           ELSE 0,
           Rank(label),
           IF label = "repay" THEN Len(me.has_mortgages)
           ELSE IF label = "build" THEN Buildable(bd)
           ELSE IF label = "bankruptcy" THEN Liquidatable(bd, player)
           ELSE IF trading THEN Len(fr.s1)
           ELSE 0,
           IF label = "bankruptcy" THEN (IF me.is_bankrupt THEN 0 ELSE 1)
           ELSE IF trading THEN inner
           ELSE 0,
           IF trading THEN Len(fr.s2) ELSE 0,
           IF trading THEN innermost ELSE 0,
           IF trading THEN Len(fr.s3) ELSE 0 >>

\* C13: one_game terminates.  There are at most nMoves rounds: i never
\* exceeds nMoves and no turn is taken in a round past the last.  In a round
\* the players are visited once each in the order of the list: the index of
\* the player of the inner loop stays or goes up by one, and goes back to
\* the first at a new round only.  No new round is started and no further
\* player is called once at most one player is not bankrupt.  And every
\* step of the program leaves less to do than there was: what is left is a
\* tuple of natural numbers that every step makes smaller in the
\* lexicographic order, so that no run goes on for ever.
C13_OneGameTerminates ==
    /\ [](/\ i \in 0..nMoves /\ turn \in 1..(n_players + 1)
          /\ (pc \notin {"game_loop", "done"}) => i < nMoves
          /\ (Rank(pc) > 0 \/ pc \in {"make_a_move", "returned"})
                => turn \in Players
          /\ \A k \in 1..10 :
                Left(board, pc, i, turn, ret, frame, entry)[k] \in Nat)
    /\ [][/\ \/ turn' = turn
              \/ (turn' = turn + 1 /\ pc \in {"players_loop", "returned"})
              \/ (turn' = 1 /\ pc = "game_loop" /\ pc' = "players_loop")
          /\ \/ i' = i
             \/ (i' = i + 1 /\ pc = "players_loop" /\ turn = n_players + 1)
          /\ (Cardinality(Alive(board)) <= 1)
                => (/\ ~(pc = "game_loop" /\ pc' = "players_loop")
                    /\ ~(pc = "players_loop" /\ pc' = "make_a_move"))
          /\ LexLess(Left(board', pc', i', turn', ret', frame', entry'),
                     Left(board, pc, i, turn, ret, frame, entry))]_vars

\* the last player of the list has moved in the last round, more than one
\* player is left, and one_game has left its loop
C13_Witness ==
    /\ pc = "done"
    /\ i = nMoves /\ turn = n_players + 1
    /\ calls = 1 /\ ret = "False"
    /\ Cardinality(Alive(board)) > 1
    /\ board.players[n_players].dice # <<0, 0>>

\* C14: in the list one_game returns, the value of a player is non-positive
\* (<= 0) if and only if the player is bankrupt.
C14_NonPositiveIffBankrupt ==
    pc = "done" =>
        \A k \in 1..n_players :
            results(board)[k] <= 0 <=> board.players[PlayerSeq[k]].is_bankrupt

\* C15: a step raises the level of a plot only when the plot belongs to the
\* player who builds, its group is a monopoly and is neither the railroads
\* nor the utilities, the plot is not mortgaged and no other plot of its
\* group is mortgaged.
C15_BuildsOnlyUnmortgaged ==
    [][\A j \in Plots :
          board'.b[j].hasHouses > board.b[j].hasHouses
          => /\ pc = "build"
             /\ board.b[j].owner = self
             /\ board.b[j].is_monopoly
             /\ Cell(j).group \notin {"RAILROAD", "UTILITY"}
             /\ \A m \in GroupPlots(Cell(j).group) : ~board.b[m].is_mortgaged]_vars

\* the players who hold the jail card of the Chance deck, of the Community
\* deck
ChanceHolders(bd) == {p \in Players : bd.players[p].has_jail_card_chance}
CommunityHolders(bd) == {p \in Players : bd.players[p].has_jail_card_community}

\* the cards of the list are distinct, and with the jail card in the hand of
\* at most one player they are the 16 cards
WholeDeck(deck, holders, jail_card) ==
    /\ \A m \in 1..Len(deck), n \in 1..Len(deck) : deck[m] = deck[n] => m = n
    /\ Cardinality(holders) <= 1
    /\ Len(deck) + Cardinality(holders) = 16
    /\ {deck[m] : m \in 1..Len(deck)} =
          IF holders = {} THEN 0..15 ELSE (0..15) \ {jail_card}

\* the deck after a draw: the front card is gone, and is the last card
\* unless it is the jail card
Drawn(deck, jail_card) ==
    IF Head(deck) = jail_card THEN Tail(deck) ELSE Append(Tail(deck), Head(deck))

\* the action of the cell draws from the Chance deck, from the Community deck
\* (also by the Chance card "go back 3 spaces" of the cell 36)
DrawsChance == pc = "action" /\ Cell(Me.position).kind = "Chance"
DrawsCommunity ==
    /\ pc = "action"
    /\ \/ Cell(Me.position).kind = "Community"
       \/ Me.position = 36 /\ Head(board.chanceCards) = 13

\* the roll of a player in jail who has the jail card of the Chance deck, of
\* the Community deck if not of the Chance deck
UsesChance == pc = "roll" /\ Me.in_jail /\ Me.has_jail_card_chance
UsesCommunity ==
    pc = "roll" /\ Me.in_jail /\ ~Me.has_jail_card_chance /\ Me.has_jail_card_community

\* C16: in every state each deck holds distinct cards, at most one player
\* has its jail card, and the cards of the deck and the card in a hand are
\* the 16 cards.  A draw takes the front card and puts it at the back of
\* its deck, unless it is the jail card, which goes to the player who draws;
\* a player who uses a jail card gives it up and it is put at the back of
\* its deck; and no other step changes a deck or who has a jail card.
C16_Decks ==
    /\ [](/\ WholeDeck(board.chanceCards, ChanceHolders(board), 1)
          /\ WholeDeck(board.communityCards, CommunityHolders(board), 6))
    /\ [][/\ board'.chanceCards =
                IF DrawsChance THEN Drawn(board.chanceCards, 1)
                ELSE IF UsesChance THEN Append(board.chanceCards, 1)
                ELSE board.chanceCards
          /\ board'.communityCards =
                IF DrawsCommunity THEN Drawn(board.communityCards, 6)
                ELSE IF UsesCommunity THEN Append(board.communityCards, 6)
                ELSE board.communityCards
          /\ ChanceHolders(board') =
                IF DrawsChance /\ Head(board.chanceCards) = 1 THEN {self}
                ELSE IF UsesChance THEN {}
                ELSE ChanceHolders(board)
          /\ CommunityHolders(board') =
                IF DrawsCommunity /\ Head(board.communityCards) = 6 THEN {self}
                ELSE IF UsesCommunity THEN {}
                ELSE CommunityHolders(board)]_vars

\* player 1 has landed on a Community cell and has drawn the jail card from
\* the front of the deck: the player has the card and the deck is the 15
\* cards that were behind it
C16_Witness ==
    /\ pc = "bankruptcy"
    /\ Cell(Me.position).kind = "Community"
    /\ Head(entry.communityCards) = 6
    /\ Me.has_jail_card_community /\ ~MeAtEntry.has_jail_card_community
    /\ board.communityCards = Tail(entry.communityCards)
    /\ Len(board.communityCards) = 15
    /\ board.chanceCards = entry.chanceCards

\* C17: a make_a_move call returns True only if in the call the player has
\* rolled doubles while not in jail and, at the end of the call, is neither
\* in jail (sent there by the cell or by a card in this call) nor bankrupt.
C17_GoAgainOnlyIfFree ==
    (pc = "returned" /\ calls > 0 /\ ret = "True")
    => /\ Me.dice[1] = Me.dice[2]
       /\ ~MeAtEntry.in_jail
       /\ ~Me.in_jail
       /\ ~Me.is_bankrupt

\* the action of the cell is about to run for a player who stands on a plot
\* that nobody owns
LandsOnUnowned ==
    /\ pc = "action"
    /\ Cell(Me.position).kind = "Property"
    /\ board.b[Me.position].owner = None
    /\ ~board.b[Me.position].is_mortgaged

\* C18: a player who lands on a plot nobody owns buys it if and only if
\* money > cost_base + cash_limit.  The purchase takes exactly cost_base
\* from the cash of the player and makes the player the owner, the cash of
\* the others, the owners of the other plots, the mortgages and the
\* buildings as they were; a refusal leaves the board as it was.
C18_BuyPolicy ==
    [][LandsOnUnowned
       => LET position == Me.position
              cost_base == Cell(position).cost_base
          IN  IF Me.money > cost_base + Me.cash_limit
              THEN /\ board'.b[position].owner = self
                   /\ board'.players[self].money = Me.money - cost_base
                   /\ \A p \in Players \ {self} :
                         board'.players[p].money = board.players[p].money
                   /\ \A j \in Plots :
                         /\ j # position => board'.b[j].owner = board.b[j].owner
                         /\ board'.b[j].is_mortgaged = board.b[j].is_mortgaged
                         /\ board'.b[j].hasHouses = board.b[j].hasHouses
              ELSE board' = board]_vars

\* player 1 has landed on a green plot nobody owns with exactly its price,
\* and has not bought it: the board is as it was before the action
C18_Witness ==
    /\ pc = "bankruptcy" /\ self = 1
    /\ Me.position \in {31, 32}
    /\ MeAtEntry.position = 28
    /\ Me.money = Cell(Me.position).cost_base
    /\ board.b[Me.position].owner = None
    /\ \A j \in Plots : board.b[j] = entry.b[j]
    /\ \A p \in Players : board.players[p].money = entry.players[p].money

\* the action of the cell is about to run for a player who stands on a plot
\* that has an owner
LandsOnOwned ==
    /\ pc = "action"
    /\ Cell(Me.position).kind = "Property"
    /\ board.b[Me.position].owner # None

\* C19: the action of a plot that belongs to the player who lands on it, or
\* that is mortgaged, leaves the board as it was; the action of a plot of
\* another player that is not mortgaged takes the rent calculate_rent gives
\* for the dice of the player from the cash of the player, adds it to the
\* cash of the owner, and changes nothing else.
C19_RentTransfer ==
    [][LandsOnOwned
       => LET position == Me.position
              owner == board.b[position].owner
              rent == calculate_rent(board, position, Me.dice, "")
          IN  IF owner = self \/ board.b[position].is_mortgaged
              THEN board' = board
              ELSE board' = [board EXCEPT !.players[self].money = @ - rent,
                                          !.players[owner].money = @ + rent]]_vars

\* player 3 has landed on the light blue plot 9 of player 2, which is
\* mortgaged, and nobody has paid or received anything
C19_Witness ==
    /\ pc = "bankruptcy" /\ self = 3
    /\ Me.position = 9
    /\ board.b[9].owner = 2 /\ board.b[9].is_mortgaged
    /\ board = [entry EXCEPT !.players[3].position = 9,
                             !.players[3].dice = Me.dice]

\* the roll of a player who is in jail and has no jail card
RollsInJail ==
    /\ pc = "roll"
    /\ Me.in_jail
    /\ ~Me.has_jail_card_chance /\ ~Me.has_jail_card_community

\* C20: days_in_jail counts the rolls without doubles of a stay in jail: it
\* is 0 for a player who is not in jail and at most 2 for one who is.  A
\* roll without doubles of a player in jail who has no jail card is the
\* (days_in_jail + 1)-th such roll.  On the first and on the second the
\* call returns False with days_in_jail one higher and the position, the
\* cash and in_jail as they were; on the third the player pays exactly
\* settingJailFine, is out of jail with days_in_jail 0, and the piece is
\* moved from cell 10 by the sum of the dice, before any action of a cell.
C20_JailWithoutDoubles ==
    /\ [](\A p \in Players :
             /\ board.players[p].days_in_jail \in 0..2
             /\ ~board.players[p].in_jail => board.players[p].days_in_jail = 0)
    /\ [][(RollsInJail /\ board'.players[self].dice[1] # board'.players[self].dice[2])
          => LET after == board'.players[self]
                 sum == after.dice[1] + after.dice[2]
             IN  IF Me.days_in_jail < 2
                 THEN /\ pc' = "returned" /\ ret' = "False"
                      /\ board' = [board EXCEPT
                                      !.players[self].dice = after.dice,
                                      !.players[self].consequent_doubles = 0,
                                      !.players[self].days_in_jail = @ + 1]
                 ELSE /\ pc' = "action"
                      /\ board' = [board EXCEPT
                                      !.players[self].dice = after.dice,
                                      !.players[self].consequent_doubles = 0,
                                      !.players[self].days_in_jail = 0,
                                      !.players[self].in_jail = FALSE,
                                      !.players[self].money = @ - settingJailFine,
                                      !.players[self].position = @ + sum]]_vars

\* player 1 came to the call in jail with two rolls without doubles behind
\* and no jail card, has rolled no doubles again, has paid the fine and
\* stands on the cell the dice lead to from cell 10
C20_Witness ==
    /\ pc = "action" /\ self = 1
    /\ MeAtEntry.in_jail /\ MeAtEntry.days_in_jail = 2 /\ MeAtEntry.position = 10
    /\ ~MeAtEntry.has_jail_card_chance /\ ~MeAtEntry.has_jail_card_community
    /\ Me.dice[1] # Me.dice[2]
    /\ ~Me.in_jail /\ Me.days_in_jail = 0
    /\ Me.money = MeAtEntry.money - settingJailFine
    /\ Me.position = 10 + Me.dice[1] + Me.dice[2]

\* C21: a player in jail who has no jail card and rolls doubles is, after
\* the roll, out of jail with days_in_jail 0 and consequent_doubles 0, on
\* the cell the dice lead to from where the piece stood, with the cash
\* untouched (no fine) and no other change, and the action of the cell is
\* next; and a call a player came to in jail with no jail card, and rolled
\* doubles in, returns False.
C21_DoublesRelease ==
    /\ [][(RollsInJail /\ board'.players[self].dice[1] = board'.players[self].dice[2])
          => LET after == board'.players[self]
             IN  /\ pc' = "action" /\ go_again' = FALSE
                 /\ board' = [board EXCEPT
                                 !.players[self].dice = after.dice,
                                 !.players[self].consequent_doubles = 0,
                                 !.players[self].days_in_jail = 0,
                                 !.players[self].in_jail = FALSE,
                                 !.players[self].position =
                                     @ + after.dice[1] + after.dice[2]]]_vars
    /\ []((/\ pc = "returned" /\ calls > 0
           /\ ~MeAtEntry.is_bankrupt /\ MeAtEntry.in_jail
           /\ ~MeAtEntry.has_jail_card_chance /\ ~MeAtEntry.has_jail_card_community
           /\ Me.dice[1] = Me.dice[2])
          => ret = "False")

\* player 1 came to the call in jail with one roll without doubles behind
\* and no jail card, has rolled doubles and the call has returned False
C21_Witness ==
    /\ pc = "returned" /\ calls > 0 /\ self = 1
    /\ MeAtEntry.in_jail /\ MeAtEntry.days_in_jail = 1
    /\ ~MeAtEntry.has_jail_card_chance /\ ~MeAtEntry.has_jail_card_community
    /\ Me.dice[1] = Me.dice[2]
    /\ ret = "False"
    /\ ~Me.in_jail /\ Me.days_in_jail = 0 /\ Me.consequent_doubles = 0
    /\ Me.position = 10 + Me.dice[1] + Me.dice[2]

\* this pass of the inner loop of two_way_trade gives a plot another owner
TwoWayExecuted ==
    /\ pc = "two_way_inner"
    /\ \E j \in Plots : board'.b[j].owner # board.b[j].owner

\* C22, as the code has it: a two-way trade is executed only if the owner of
\* the cheaper plot, who receives the expensive one, can pay price_diff with
\* the cash not below the cash_limit; that party pays price_diff to the
\* other party, the two plots change hands and nobody else's cash changes.
C22_CheaperOwnerPays ==
    [][TwoWayExecuted
       => LET payer == board.b[TradedPlots[1]].owner
              payee == board.b[TradedPlots[2]].owner
          IN  /\ payer \in Players /\ payee \in Players /\ payer # payee
              /\ self \in {payer, payee}
              /\ board.players[payer].money - TradedDiff
                    >= board.players[payer].cash_limit
              /\ board'.b[TradedPlots[1]].owner = payee
              /\ board'.b[TradedPlots[2]].owner = payer
              /\ \A p \in Players :
                    board'.players[p].money =
                        IF p = payer THEN board.players[p].money - TradedDiff
                        ELSE IF p = payee THEN board.players[p].money + TradedDiff
                        ELSE board.players[p].money]_vars

\* C22, as the claim has it: a two-way trade is executed only if the party
\* that receives the cheaper plot can pay price_diff with the cash not below
\* the cash_limit, and that party pays price_diff.
C22_Original ==
    [][TwoWayExecuted
       => LET receiver == board'.b[TradedPlots[1]].owner
          IN  /\ board.players[receiver].money - TradedDiff
                    >= board.players[receiver].cash_limit
              /\ board'.players[receiver].money =
                    board.players[receiver].money - TradedDiff]_vars

\* player 2 had exactly the 60 the plot 16 costs more than the plot 9, has
\* paid them to player 1 and has the plot 16 for the plot 9
C22_Witness ==
    /\ pc = "two_way_inner"
    /\ frame.trade_happened
    /\ entry.b[9].owner = 2 /\ entry.b[16].owner = 1
    /\ entry.players[2].money = 60 + entry.players[2].cash_limit
    /\ board.b[9].owner = 1 /\ board.b[16].owner = 2
    /\ board.players[2].money = entry.players[2].money - 60
    /\ board.players[1].money = entry.players[1].money + 60

\* C23: every pass of the inner loop of two_way_trade that makes a trade
\* makes it for a plot i_want that another player owns and that is in the
\* list of wanted plots of the player as recomputed on the board of the
\* moment, against a plot they_want of another group that is in the
\* recomputed list of offered plots of the player and in the recomputed
\* list of wanted plots of the owner of i_want.
C23_NoStaleTwoWayTrade ==
    [][TwoWayTraded
       => LET i_want == frame.w1
              they_want == Head(frame.s2)
              owner_of_wanted == board.b[i_want].owner
          IN  /\ owner_of_wanted \in Players
              /\ owner_of_wanted # self
              /\ board.b[they_want].owner = self
              /\ InSeq(i_want, get_list_of_wanted_plots(board, self))
              /\ InSeq(they_want, get_list_of_offered_plots(board, self))
              /\ InSeq(they_want, get_list_of_wanted_plots(board, owner_of_wanted))
              /\ Cell(i_want).group # Cell(they_want).group]_vars

\* this pass of the innermost loop of three_way_trade changes the board
ThreeWayExecuted ==
    /\ pc = "three_way_3"
    /\ board' # board

\* the three plots of that pass and what the three parties have to pay
Ring == <<frame.w1, frame.w2, Head(frame.s3)>>
Parties == <<self, frame.o1, frame.o2>>
ToPay ==
    << Cell(Ring[1]).cost_base - Cell(Ring[3]).cost_base,
       Cell(Ring[2]).cost_base - Cell(Ring[1]).cost_base,
       Cell(Ring[3]).cost_base - Cell(Ring[2]).cost_base >>

\* C24: a pass of three_way_trade that changes the board is a trade of three
\* plots of three different groups among three different players, none of
\* them bankrupt, each of whom has, before the trade, more cash than its
\* cash_limit and what it has to pay together.
C24_ThreeWayGuards ==
    [][ThreeWayExecuted
       => /\ Cardinality({Cell(Ring[n]).group : n \in 1..3}) = 3
          /\ \A n \in 1..3 : Parties[n] \in Players
          /\ Cardinality({Parties[n] : n \in 1..3}) = 3
          /\ \A n \in 1..3 :
                /\ ~board.players[Parties[n]].is_bankrupt
                /\ board.players[Parties[n]].money - ToPay[n]
                      > board.players[Parties[n]].cash_limit
                /\ board'.players[Parties[n]].money
                      > board'.players[Parties[n]].cash_limit]_vars

\* the three-way trade of the plots 9, 19 and 11 has been made, and player 2
\* has paid the 80 of its part out of 81
C24_Witness ==
    /\ pc = "three_way_3"
    /\ frame.trade_happened
    /\ frame.w1 = 9 /\ frame.o1 = 2 /\ frame.w2 = 19 /\ frame.o2 = 3
    /\ entry.players[2].money = 81 /\ board.players[2].money = 1
    /\ entry.b[11].owner = 1 /\ board.b[11].owner = 3
    /\ board.b[9].owner = 1 /\ board.b[19].owner = 2

\* the plots of a player
PlotsOf(bd, p) == {j \in Plots : bd.b[j].owner = p}

\* C25: a pass of three_way_trade that changes the board is a rotation: each
\* of the three parties loses exactly one plot and gains exactly one, the
\* cash of each falls by the cost_base of the plot gained less the cost_base
\* of the plot lost, and the three changes of cash sum to zero.
C25_ThreeWayRotation ==
    [][ThreeWayExecuted
       => /\ \A n \in 1..3 :
                LET p == Parties[n]
                    given == PlotsOf(board, p) \ PlotsOf(board', p)
                    received == PlotsOf(board', p) \ PlotsOf(board, p)
                IN  /\ Cardinality(given) = 1
                    /\ Cardinality(received) = 1
                    /\ \A g \in given, r \in received :
                          board.players[p].money - board'.players[p].money
                              = Cell(r).cost_base - Cell(g).cost_base
          /\ Sum([n \in 1..3 |-> board.players[Parties[n]].money])
                = Sum([n \in 1..3 |-> board'.players[Parties[n]].money])]_vars

\* C26: a pass of the building loop in which improve_property returns True
\* raises hasHouses of one plot by one, takes the cost_house of that plot from
\* the player, counts one house more, or for the fifth level one hotel more
\* and four houses less, and changes nothing else but the player's
\* plots_to_build; a call that returns False leaves the board as it is.
C26_OneBuildingPerCall ==
    /\ [][(pc = "build" /\ pc' = "build")
          => \E j \in Plots :
                board' = [board EXCEPT
                    !.b[j].hasHouses = @ + 1,
                    !.players[self].money = @ - Cell(j).cost_house,
                    !.nHouses = IF board.b[j].hasHouses = 4 THEN @ - 4 ELSE @ + 1,
                    !.nHotels = IF board.b[j].hasHouses = 4 THEN @ + 1 ELSE @,
                    !.players[self].plots_to_build =
                        board'.players[self].plots_to_build]]_vars
    /\ [][(pc = "build" /\ pc' # "build") => board' = board]_vars
    /\ [](pc = "build" =>
            \A available_money \in {Me.money - Me.cash_limit, 5000, 100000} :
                LET r == improve_property(board, self, available_money)
                IN  ~r.ret => r.board = board)

\* a hotel has been built on a plot that had four houses at the call: a
\* hotel more, four houses less, and the price of a house paid
C26_Witness ==
    /\ pc = "build"
    /\ \E j \in Plots :
          /\ entry.b[j].hasHouses = 4 /\ board.b[j].hasHouses = 5
          /\ Me.money = MeAtEntry.money - Cell(j).cost_house
    /\ board.nHotels = entry.nHotels + 1
    /\ board.nHouses = entry.nHouses - 4

\* C27: settingsAllowUnEqualDevelopment is off, and a pass of the building
\* loop that raises hasHouses of a plot raises it on a plot that had, before
\* the pass, the least hasHouses of all the plots of its group.
C27_EvenBuilding ==
    /\ [](~settingsAllowUnEqualDevelopment)
    /\ [][\A j \in Plots :
            board'.b[j].hasHouses > board.b[j].hasHouses
            => /\ pc = "build"
               /\ \A m \in GroupPlots(Cell(j).group) :
                     board.b[j].hasHouses <= board.b[m].hasHouses]_vars

\* a house has been built on a plot of a group in which another plot had a
\* house more at the call
C27_Witness ==
    /\ pc = "build"
    /\ \E j \in Plots :
          /\ board.b[j].hasHouses = entry.b[j].hasHouses + 1
          /\ \E m \in GroupPlots(Cell(j).group) :
                entry.b[m].hasHouses > entry.b[j].hasHouses

\* a pass of the loop of check_bankruptcy: the player is in debt
Liquidates ==
    /\ pc = "bankruptcy"
    /\ Me.money < 0 /\ ~Me.is_bankrupt
    /\ choose_property_to_mortgage_downgrade(board, self) # 0

\* the plots but their flags is_monopoly, and the cash of the players
Holdings(bd) ==
    [j \in Plots |-> <<bd.b[j].owner, bd.b[j].is_mortgaged, bd.b[j].hasHouses>>]
Cash(bd) == [p \in Players |-> bd.players[p].money]

\* C28, as the code has it: a pass of the loop of check_bankruptcy with a
\* plot to sell acts on the plot choose_property_to_mortgage_downgrade
\* gives, a plot of the player that is not mortgaged, and on no other plot
\* and no other player's cash: a hotel is sold whole, hasHouses going from 5
\* to 0, for 5 * cost_house // 2; of one to four houses one is sold for
\* cost_house // 2; a plot with no building is mortgaged for cost_base // 2.
C28_LiquidationStep ==
    [][Liquidates
       => LET j == choose_property_to_mortgage_downgrade(board, self)
              level == board.b[j].hasHouses
              credit == IF level = 5 THEN (Cell(j).cost_house * 5) \div 2
                        ELSE IF level > 0 THEN Cell(j).cost_house \div 2
                        ELSE Cell(j).cost_base \div 2
          IN  /\ board.b[j].owner = self /\ ~board.b[j].is_mortgaged
              /\ Holdings(board') =
                    [Holdings(board) EXCEPT ![j] =
                        <<self, level = 0,
                          IF level = 5 THEN 0 ELSE IF level > 0 THEN level - 1 ELSE 0>>]
              /\ Cash(board') = [Cash(board) EXCEPT ![self] = @ + credit]
              /\ board'.nHotels = board.nHotels - (IF level = 5 THEN 1 ELSE 0)
              /\ board'.nHouses = board.nHouses - (IF level \in 1..4 THEN 1 ELSE 0)]_vars

\* C28, as the claim has it: the pass lowers hasHouses of the chosen plot by
\* exactly one, for 5 * cost_house // 2 from a hotel and cost_house // 2 from
\* a house, or mortgages the plot that has no building for cost_base // 2.
C28_Original ==
    [][Liquidates
       => LET j == choose_property_to_mortgage_downgrade(board, self)
              level == board.b[j].hasHouses
          IN  IF level > 0
              THEN /\ board'.b[j].hasHouses = level - 1
                   /\ ~board'.b[j].is_mortgaged
                   /\ board'.players[self].money = Me.money +
                         (IF level = 5 THEN (Cell(j).cost_house * 5) \div 2
                          ELSE Cell(j).cost_house \div 2)
              ELSE /\ board'.b[j].hasHouses = 0
                   /\ board'.b[j].is_mortgaged
                   /\ board'.players[self].money = Me.money + Cell(j).cost_base \div 2]_vars

\* player 1, in debt, has sold the hotel of the plot 3 for 125: no building
\* is left on the plot and the four houses of the plot 1 stand
C28_Witness ==
    /\ pc = "bankruptcy" /\ self = 1
    /\ entry.b[3].hasHouses = 5 /\ board.b[3].hasHouses = 0
    /\ board.b[1].hasHouses = 4 /\ ~board.b[3].is_mortgaged
    /\ board.nHotels = entry.nHotels - 1 /\ board.nHouses = entry.nHouses
    /\ \E debt \in 1..2000 : Me.money = MeAtEntry.money - debt + 125

\* C29: a pass of check_bankruptcy that marks the player bankrupt finds every
\* plot of the player mortgaged and without a building.
C29_BankruptWithNothingLeft ==
    [][(pc = "bankruptcy" /\ ~Me.is_bankrupt /\ board'.players[self].is_bankrupt)
       => \A j \in Plots :
             board.b[j].owner = self
             => board.b[j].is_mortgaged /\ board.b[j].hasHouses = 0]_vars

\* the Chance cells, and the Chance cards that move the player forward: to
\* the plots 11, 5 and 24, to the next railroad, to GO, to the next utility
\* and to the plot 39
ChanceCells == {position \in Positions : Cell(position).kind = "Chance"}
Forward == {0, 2, 3, 4, 6, 9, 12}

\* the first cell of the set cells after the cell position, round the board
NextOf(cells, position) ==
    LET ahead(n) == (position + n) % 40
        n == CHOOSE n \in 1..40 :
                /\ ahead(n) \in cells
                /\ \A m \in 1..(n - 1) : ahead(m) \notin cells
    IN  ahead(n)

\* where the card sends a player who stands on the cell position
Destination(card, position) ==
    CASE card = 0 -> 11
      [] card = 2 -> 5
      [] card = 3 -> NextOf({5, 15, 25, 35}, position)
      [] card = 4 -> 24
      [] card = 6 -> 0
      [] card = 9 -> NextOf({12, 28}, position)
      [] card = 12 -> 39

\* the board with the player on the cell position and the card on top of the
\* Chance deck
Draws(bd, player, position, card) ==
    [bd EXCEPT !.players[player].position = position,
               !.chanceCards = <<card>> \o Without(@, card)]

\* the board after the player has drawn the card on top, has gone to its
\* destination, with the salary given, has met the action of the cell (GO has
\* none) and the card is back under the deck
Relocated(bd, player, salary) ==
    LET card == Head(bd.chanceCards)
        target == Destination(card, bd.players[player].position)
        there == [bd EXCEPT !.chanceCards = Tail(@),
                            !.players[player].position = target,
                            !.players[player].money = @ + salary]
        acted == IF card = 6 THEN there
                 ELSE board_action(there, player, target,
                                   IF card \in {3, 9} THEN "from_chance" ELSE "")
    IN  [acted EXCEPT !.chanceCards = Append(@, card)]

\* C30: when the player is about to act on a Chance cell, there is one card
\* among the cards that move the player forward such that, from every Chance
\* cell and for every such card on top of the deck, the player who draws it
\* receives settingsSalary exactly when the card is not that one and the
\* destination is not a cell after the cell the player leaves.
C30_OneCardWithoutSalary ==
    (pc = "action" /\ Me.position \in ChanceCells)
    => \E exempt \in Forward :
          \A card \in Forward, position \in ChanceCells :
             LET bd == Draws(board, self, position, card)
                 passes == Destination(card, position) <= position
             IN  chance_action(bd, self) =
                    Relocated(bd, self, IF card # exempt /\ passes
                                        THEN settingsSalary ELSE 0)

\* the same with the two cards that lead to the next railroad and to the next
\* utility left aside: of the other cards none goes without the salary
ForwardCardsSalary ==
    (pc = "action" /\ Me.position \in ChanceCells)
    => /\ \A card \in Forward \ {3, 9}, position \in ChanceCells :
             LET bd == Draws(board, self, position, card)
                 passes == Destination(card, position) <= position
             IN  chance_action(bd, self) =
                    Relocated(bd, self, IF passes THEN settingsSalary ELSE 0)
       /\ \A card \in {3, 9}, position \in ChanceCells :
             LET bd == Draws(board, self, position, card)
             IN  chance_action(bd, self) = Relocated(bd, self, 0)

\* the cached lists of the player are those the board gives
Fresh(bd, p) ==
    /\ bd.players[p].plots_wanted = get_list_of_wanted_plots(bd, p)
    /\ bd.players[p].plots_offered = get_list_of_offered_plots(bd, p)
    /\ bd.players[p].plots_to_build = list_property_to_build(bd, p)

\* C31: in every state, and so whenever the building loop or a trade
\* function reads them, the cached plots_wanted, plots_offered and
\* plots_to_build of every player are the lists get_list_of_wanted_plots,
\* get_list_of_offered_plots and list_property_to_build return for the board
\* of the moment.
C31_CachedListsFresh ==
    \A p \in Players : Fresh(board, p)

\* the building loop is about to read plots_to_build after a house was sold
\* or built or a plot changed hands in this call: the list is not the list of
\* the call and is the list of the board
C31_Witness ==
    /\ pc \in {"build", "bankruptcy"}
    /\ Me.plots_to_build # MeAtEntry.plots_to_build
    /\ Me.plots_to_build # << >>
    /\ Fresh(board, self)

\* the step is a spending the policy of player p decides: a redemption, a
\* building or a part of a trade that takes cash from p, or a purchase
PolicySpends(p) ==
    \/ /\ pc \in {"repay", "build", "two_way_inner", "three_way_3"}
       /\ board'.players[p].money < board.players[p].money
    \/ /\ pc = "action" /\ p = self
       /\ \E j \in Plots : board.b[j].owner = None /\ board'.b[j].owner = p

\* C32: no redemption, building, purchase or paid part of a trade leaves the
\* cash of the player who pays below the cash_limit of that player.
C32_CashFloor ==
    [][\A p \in Players :
          PolicySpends(p) => board'.players[p].money >= board'.players[p].cash_limit]_vars

\* the cash of all the players together
TotalCash(bd) == Sum([k \in 1..n_players |-> bd.players[PlayerSeq[k]].money])

\* the players who are not bankrupt, but the player who moves
Payers == {p \in Players : p # self /\ ~board.players[p].is_bankrupt}

\* the action of the cell is about to run on a cell of the kind, with the
\* card on top of the deck
DrawsCard(kind, deck, card) ==
    /\ pc = "action"
    /\ Cell(Me.position).kind = kind
    /\ Head(deck) = card

\* C33: the cash of all the players together is the same before and after a
\* rent is paid, before and after every pass of two_way_trade and of
\* three_way_trade, and before and after the Chance card 11, which takes 50
\* per player who is not bankrupt from the player who moves and gives 50 to
\* each of them.  The Community card 1 gives the player who moves 50 per
\* player who is not bankrupt and takes 50 from each of them; what such a
\* player then has above that comes from the sales of its own
\* check_bankruptcy, and with nobody short of the 50 the cash of all the
\* players together is the same.  Neither card changes the cash of a
\* bankrupt player.
C33_TransfersKeepTotalCash ==
    /\ [][(LandsOnOwned \/ pc \in {"two_way_inner", "three_way_3"})
          => TotalCash(board') = TotalCash(board)]_vars
    /\ [][DrawsCard("Chance", board.chanceCards, 11)
          => \A p \in Players :
                board'.players[p].money =
                    IF p = self THEN board.players[p].money - 50 * Cardinality(Payers)
                    ELSE IF p \in Payers THEN board.players[p].money + 50
                    ELSE board.players[p].money]_vars
    /\ [][DrawsCard("Community", board.communityCards, 1)
          => /\ \A p \in Players :
                   IF p = self
                   THEN board'.players[p].money =
                            board.players[p].money + 50 * Cardinality(Payers)
                   ELSE IF p \in Payers /\ board.players[p].money >= 50
                   THEN board'.players[p].money = board.players[p].money - 50
                   ELSE IF p \in Payers
                   THEN board'.players[p].money >= board.players[p].money - 50
                   ELSE board'.players[p].money = board.players[p].money
             /\ (\A p \in Payers : board.players[p].money >= 50)
                   => TotalCash(board') = TotalCash(board)]_vars

\* player 1 has drawn the Community card 1 with player 3 bankrupt: 50 have
\* gone from player 2 to player 1 and the debt of player 3 is what it was
C33_Witness ==
    /\ pc = "bankruptcy" /\ self = 1
    /\ Cell(Me.position).kind = "Community"
    /\ Head(entry.communityCards) = 1
    /\ entry.players[3].is_bankrupt
    /\ Me.money = MeAtEntry.money + 50
    /\ board.players[2].money = entry.players[2].money - 50
    /\ board.players[3].money = entry.players[3].money
    /\ TotalCash(board) = TotalCash(entry)

\* C34: nHouses is the number of houses on the plots (the sum of hasHouses
\* over the plots on which it is between 1 and 4) and nHotels is the number
\* of plots on which hasHouses is 5.
C34_BuildingCounters ==
    /\ board.nHouses =
          Sum([n \in 1..Len(PlotSeq) |->
                  IF board.b[PlotSeq[n]].hasHouses \in 1..4
                  THEN board.b[PlotSeq[n]].hasHouses ELSE 0])
    /\ board.nHotels = Cardinality({j \in Plots : board.b[j].hasHouses = 5})

\* a hotel and a house have been sold in this call, and the counters are
\* the counts of the buildings on the plots
C34_Witness ==
    /\ pc = "bankruptcy"
    /\ board.nHotels < entry.nHotels
    /\ board.nHouses < entry.nHouses
    /\ C34_BuildingCounters

\* the number of the entries of the ledger of player p for the plot j
LedgerEntries(bd, p, j) ==
    Cardinality({k \in 1..Len(bd.players[p].has_mortgages) :
                    bd.players[p].has_mortgages[k][1] = j})

\* C35: for every player who is not bankrupt a plot is in has_mortgages,
\* once, if and only if the player owns it and it is mortgaged; so a
\* mortgaged plot never goes to another owner in a trade.
C35_LedgerMatchesBoard ==
    \A p \in Players :
        (~board.players[p].is_bankrupt) =>
            \A j \in Plots :
                LedgerEntries(board, p, j) =
                    IF board.b[j].owner = p /\ board.b[j].is_mortgaged THEN 1 ELSE 0

\* C36: every plot with a level above 0 has an owner, is not mortgaged and
\* is in a group of which its owner holds every plot; a plot with no
\* owner, a mortgaged plot and a plot of a group that is not a monopoly are
\* at level 0.
C36_ImprovedPlots ==
    \A j \in Plots :
        board.b[j].hasHouses > 0 =>
            /\ board.b[j].owner # None
            /\ ~board.b[j].is_mortgaged
            /\ \A m \in GroupPlots(Cell(j).group) : board.b[m].owner = board.b[j].owner

\* C37: when a call of make_a_move returns, every player who is not bankrupt
\* has cash of 0 or more, the players other than the mover who paid or
\* received money in the move too.
C37_NoDebtAtReturn ==
    pc = "returned" =>
        \A p \in Players :
            (~board.players[p].is_bankrupt) => board.players[p].money >= 0

\* the call returns after a player other than the mover has paid in it more
\* than it had, and has sold a house or mortgaged a plot to pay
C37_Witness ==
    /\ pc = "returned"
    /\ \E p \in Players \ {self} :
          /\ ~board.players[p].is_bankrupt
          /\ entry.players[p].money < 50
          /\ board.players[p].money >= 0
          /\ \E j \in Plots :
                /\ board.b[j].owner = p
                /\ \/ board.b[j].hasHouses < entry.b[j].hasHouses
                   \/ board.b[j].is_mortgaged /\ ~entry.b[j].is_mortgaged

\* the count of the doubles of the player p
Doubles(bd, p) == bd.players[p].consequent_doubles

\* a call of make_a_move that returns True has counted one double more, the
\* first or the second of the turn: the call after two doubles, the third of
\* the turn, never returns True, and the player's turn ends
CallsOfATurn ==
    [](pc = "returned" /\ ret = "True"
          => /\ Doubles(board, self) = Doubles(entry, self) + 1
             /\ Doubles(board, self) <= 2)

\* C38: a turn ends, the loop "while player.make_a_move(board)" calls
\* make_a_move at most 3 times for the player: a call that returns True has
\* counted the first or the second double of the turn.  Between two turns,
\* and so at the start of a round, consequent_doubles is 0 for every player
\* who is not bankrupt.
C38_TurnEnds ==
    /\ CallsOfATurn
    /\ [](pc \in {"players_loop", "game_loop"}
             => \A p \in Players :
                   (~board.players[p].is_bankrupt) => Doubles(board, p) = 0)

\* the statement of C38 with consequent_doubles 0 for every player, the
\* bankrupt players too, at the start of every round
C38_Original ==
    /\ CallsOfATurn
    /\ [](pc = "game_loop" /\ i < nMoves
             => \A p \in Players : Doubles(board, p) = 0)

\* the call after two doubles has returned False with the player on the
\* board, the count back at 0
C38_Witness ==
    /\ pc = "returned" /\ ret = "False"
    /\ Doubles(entry, self) = 2
    /\ ~Me.in_jail /\ ~Me.is_bankrupt
    /\ Doubles(board, self) = 0

\* a player goes bankrupt on a double: the call returns True, the count of
\* the doubles stays at 1
BankruptOnDoubles ==
    /\ pc = "returned" /\ ret = "True"
    /\ board = DoublesBankruptBoard

\* the colour groups, and the levels of the plots of a group
ColourGroups == Groups \ {"RAILROAD", "UTILITY"}
Levels(bd, g) == {bd.b[j].hasHouses : j \in GroupPlots(g)}
Even(bd, g) == \A h1 \in Levels(bd, g), h2 \in Levels(bd, g) : h1 - h2 <= 1

\* a step sells a hotel of the group g
HotelSold(g) ==
    \E j \in GroupPlots(g) : board.b[j].hasHouses = 5 /\ board'.b[j].hasHouses = 0

\* C39: settingsAllowUnEqualDevelopment is off.  A step that builds, or that
\* sells houses in a group with no mortgaged plot, leaves the levels of the
\* plots of a colour group at most 1 apart if they were so before it.  A
\* step that sells a hotel takes its plot from level 5 to level 0 and
\* leaves the other plots of the group at their levels.
C39_EvenSteps ==
    /\ [](~settingsAllowUnEqualDevelopment)
    /\ [][\A g \in ColourGroups :
            IF HotelSold(g)
            THEN \E j \in GroupPlots(g) :
                    /\ board.b[j].hasHouses = 5 /\ board'.b[j].hasHouses = 0
                    /\ \A m \in GroupPlots(g) \ {j} :
                          board'.b[m].hasHouses = board.b[m].hasHouses
            ELSE (/\ Even(board, g)
                  /\ \A j \in GroupPlots(g) : ~board.b[j].is_mortgaged)
                 => Even(board', g)]_vars

\* the statement of C39 as made: the levels of the plots of a colour group
\* are at most 1 apart in every state, after the sale of a hotel too
C39_Original ==
    \A g \in ColourGroups : Even(board, g)

\* a house has been sold in a group with no mortgaged plot, in which another
\* plot still has the house it had: the levels are 1 apart
C39_Witness ==
    /\ pc = "bankruptcy"
    /\ \E g \in ColourGroups :
          /\ \A j \in GroupPlots(g) : ~board.b[j].is_mortgaged
          /\ Even(board, g)
          /\ \E j \in GroupPlots(g), m \in GroupPlots(g) :
                /\ entry.b[j].hasHouses \in 1..4
                /\ board.b[j].hasHouses = entry.b[j].hasHouses - 1
                /\ board.b[m].hasHouses = entry.b[m].hasHouses
                /\ board.b[m].hasHouses = board.b[j].hasHouses + 1

\* C40: from the moment at most one player is not bankrupt no dice are
\* rolled and no player's cash or position and no plot changes for the rest
\* of one_game, also when the last opponent goes bankrupt in the middle of a
\* turn in which the player who moves has rolled doubles.
C40_NothingAfterTheEnd ==
    [][Cardinality(Alive(board)) <= 1
          => /\ board'.b = board.b
             /\ \A p \in Players :
                   /\ board'.players[p].dice = board.players[p].dice
                   /\ board'.players[p].money = board.players[p].money
                   /\ board'.players[p].position = board.players[p].position]_vars

\* the last opponent has gone bankrupt on the Community card 1 that the
\* player who moves drew on a double: make_a_move returns True
WinsOnDoubles ==
    /\ pc = "returned" /\ ret = "True"
    /\ board = WinnerGoesAgainBoard
    /\ Alive(board) = {self}

====
